---- MODULE Spec2Model ----
(***************************************************************************)
(* The temporal tracking engine of qeye03.py: one pass of the frame loop   *)
(* (anchor scheduler, anchor smoother, candidate selector, consistency     *)
(* buffer, position integrator) as one action over the module globals.     *)
(*                                                                         *)
(* Numbers.  The program computes in IEEE doubles.  The model computes in  *)
(* exact rationals <<n, d>> (d > 0, lowest terms) and compares square      *)
(* roots through integer square roots; where that cannot decide a          *)
(* comparison the model has no value (Undecided) and TLC stops, so a       *)
(* finished run never rests on a guessed comparison.  The one place where  *)
(* double rounding changes an integer result on the rectangles used here,  *)
(* int(alpha*old + (1-alpha)*target), is tabled in FloatShortfall.         *)
(***************************************************************************)
EXTENDS Integers, Sequences, FiniteSets, TLC

\* ------------------------------------------------------------------ constants
FrameW == 400
FrameH == 300
HistoryMaxLen == 150
min_consistency_frames == 10
max_reset_frames == 40
ReconnectThreshold == 150
search_padding == 5
FacePadding == 20
DefaultSize == 200
haar_position_change_threshold == 20
haar_detection_interval == 5          \* the base interval, 0.5 s, in ticks of 0.1 s

\* None of the program; also the empty list.
None == << >>

\* ------------------------------------------------------------------ arithmetic
Abs(a) == IF a < 0 THEN -a ELSE a
Min(a, b) == IF a < b THEN a ELSE b
Max(a, b) == IF a > b THEN a ELSE b

\* A comparison the exact arithmetic of the model cannot decide: no value.
Undecided == CHOOSE b \in {1} : b = 2

RECURSIVE GCD(_, _)
GCD(a, b) == IF b = 0 THEN a ELSE GCD(b, a % b)

\* The rational n/d in lowest terms, d > 0.
Rat(n, d) ==
    LET g == GCD(Abs(n), d)
    IN  IF g = 0 THEN <<0, 1>> ELSE <<n \div g, d \div g>>

RInt(k) == <<k, 1>>
RAdd(a, b) == Rat(a[1] * b[2] + b[1] * a[2], a[2] * b[2])
RSub(a, b) == Rat(a[1] * b[2] - b[1] * a[2], a[2] * b[2])
\* a * p / q
RScale(a, p, q) == Rat(a[1] * p, a[2] * q)
RFloor(a) == a[1] \div a[2]
\* int(): truncation toward zero
RTrunc(a) == IF a[1] >= 0 THEN a[1] \div a[2] ELSE -((-a[1]) \div a[2])

\* a/b < c/d for a, c >= 0 and b, d > 0, by continued fractions (no products).
RECURSIVE FracLess(_, _, _, _)
FracLess(a, b, c, d) ==
    LET qa == a \div b
        qc == c \div d
        ra == a % b
        rc == c % d
    IN  IF qa # qc THEN qa < qc
        ELSE IF rc = 0 THEN FALSE
        ELSE IF ra = 0 THEN TRUE
        ELSE FracLess(d, rc, b, ra)

RLess(a, b) ==
    IF a[1] < 0 /\ b[1] >= 0 THEN TRUE
    ELSE IF a[1] >= 0 /\ b[1] < 0 THEN FALSE
    ELSE IF a[1] >= 0 THEN FracLess(a[1], a[2], b[1], b[2])
    ELSE FracLess(-b[1], b[2], -a[1], a[2])

\* floor(sqrt(n)) by bisection on [lo, hi), lo*lo <= n < hi*hi.
RECURSIVE ISqrtIn(_, _, _)
ISqrtIn(n, lo, hi) ==
    IF hi - lo <= 1 THEN lo
    ELSE LET mid == (lo + hi) \div 2
         IN  IF mid * mid <= n THEN ISqrtIn(n, mid, hi) ELSE ISqrtIn(n, lo, mid)

ISqrt(n) == ISqrtIn(n, 0, 46341)

\* ------------------------------------------------------------------ rectangles
CenterX(r) == r[1] + r[3] \div 2
CenterY(r) == r[2] + r[4] \div 2
Area(r) == r[3] * r[4]
InsideFrame(r) ==
    /\ r[1] >= 0 /\ r[2] >= 0
    /\ r[1] + r[3] <= FrameW /\ r[2] + r[4] <= FrameH

\* calculate_distance squared: the centres are integers (x + w // 2), so
\* sqrt(.) < c is decided exactly by comparing squares.
Dist2(r1, r2) ==
    (CenterX(r1) - CenterX(r2)) * (CenterX(r1) - CenterX(r2))
  + (CenterY(r1) - CenterY(r2)) * (CenterY(r1) - CenterY(r2))

\* add_face_padding with the width and height clipped against the frame size
\* alone, not against what is left of the frame to the right of and below the
\* padded corner.
add_face_padding_unclipped(face_rect, fw, fh, padding) ==
    LET padded_x == Max(0, face_rect[1] - padding)
        padded_y == Max(0, face_rect[2] - padding)
        padded_w == Min(fw, face_rect[3] + 2 * padding)
        padded_h == Min(fh, face_rect[4] + 2 * padding)
    IN  <<padded_x, padded_y, padded_w, padded_h>>

\* add_face_padding(face_rect, frame_shape, padding)
add_face_padding(face_rect, fw, fh, padding) ==
    LET padded_x == Max(0, face_rect[1] - padding)
        padded_y == Max(0, face_rect[2] - padding)
        padded_w == Min(fw - padded_x, face_rect[3] + 2 * padding)
        padded_h == Min(fh - padded_y, face_rect[4] + 2 * padding)
    IN  <<padded_x, padded_y, padded_w, padded_h>>

\* ------------------------------------------------------------------ consistency buffer
\* Python round(x / 10) * 10 for an integer x >= 0: halves go to the even multiple.
RoundTo(x, m) ==
    LET q == x \div m
        r == x % m
    IN  IF 2 * r < m THEN m * q
        ELSE IF 2 * r > m THEN m * (q + 1)
        ELSE IF q % 2 = 0 THEN m * q ELSE m * (q + 1)

\* pos_key of find_most_consistent_object
PosKey(obj) == <<RoundTo(obj[1], 10), RoundTo(obj[2], 10), RoundTo(obj[3], 10), RoundTo(obj[4], 10)>>

\* The objects of a history, as <<frame index, index in the frame>>; the loops of
\* find_most_consistent_object visit them in lexicographic order.
Occurrences(history) ==
    UNION { { <<f, j>> : j \in 1..Len(history[f]) } : f \in 1..Len(history) }

\* object_counts: key -> number of appearances over the whole history
object_counts(history) ==
    LET occ == Occurrences(history)
        keys == { PosKey(history[o[1]][o[2]]) : o \in occ }
    IN  [k \in keys |-> Cardinality({ o \in occ : PosKey(history[o[1]][o[2]]) = k })]

\* The first object at or after place <<f, j>>, in the order the loops visit them,
\* whose key is in keys (there is one).
RECURSIVE FirstWithKey(_, _, _, _)
FirstWithKey(history, keys, f, j) ==
    IF j > Len(history[f]) THEN FirstWithKey(history, keys, f + 1, 1)
    ELSE IF PosKey(history[f][j]) \in keys THEN history[f][j]
    ELSE FirstWithKey(history, keys, f, j + 1)

\* max(object_counts.items(), key=count): the first inserted key among those with
\* the highest count (a dict iterates in insertion order).  <<key, count>>.
most_consistent(history) ==
    LET cnt == object_counts(history)
        top == CHOOSE c \in { cnt[k] : k \in DOMAIN cnt } :
                   \A k \in DOMAIN cnt : cnt[k] <= c
        winners == { k \in DOMAIN cnt : cnt[k] = top }
    IN  <<PosKey(FirstWithKey(history, winners, 1, 1)), top>>

\* The instance of a key found by scanning the history from its oldest frame.
OldestInstance(history, key, f, j) == FirstWithKey(history, {key}, 1, 1)

\* The most recent instance of a key (there is one): frames from f down, the
\* objects of a frame in order from j.
RECURSIVE MostRecentInstance(_, _, _, _)
MostRecentInstance(history, key, f, j) ==
    IF j > Len(history[f]) THEN MostRecentInstance(history, key, f - 1, 1)
    ELSE IF PosKey(history[f][j]) = key THEN history[f][j]
    ELSE MostRecentInstance(history, key, f, j + 1)

\* find_most_consistent_object asking for more than min_consistency_frames
\* appearances.
find_most_consistent_object_strict(history) ==
    IF Len(history) < min_consistency_frames THEN None
    ELSE IF Occurrences(history) = {} THEN None
    ELSE LET mc == most_consistent(history)
         IN  IF mc[2] > min_consistency_frames
             THEN MostRecentInstance(history, mc[1], Len(history), 1)
             ELSE None

\* A vote that answers none whenever the newest frame of the history is empty.
find_most_consistent_object_present(history) ==
    IF history[Len(history)] = << >> THEN None ELSE find_most_consistent_object_strict(history)

\* A vote content with one frame less than min_consistency_frames.
find_most_consistent_object_hasty(history) ==
    IF Len(history) < min_consistency_frames - 1 THEN None
    ELSE IF Occurrences(history) = {} THEN None
    ELSE LET mc == most_consistent(history)
         IN  IF mc[2] >= min_consistency_frames - 1
             THEN MostRecentInstance(history, mc[1], Len(history), 1)
             ELSE None

find_most_consistent_object(history) ==
    IF Len(history) < min_consistency_frames THEN None
    ELSE IF Occurrences(history) = {} THEN None
    ELSE LET mc == most_consistent(history)
         IN  IF mc[2] >= min_consistency_frames
             THEN MostRecentInstance(history, mc[1], Len(history), 1)
             ELSE None

\* deque(maxlen=150).append
Append150(history, objs) ==
    IF Len(history) >= HistoryMaxLen
    THEN Append(Tail(history), objs)
    ELSE Append(history, objs)

\* The counter of a should_reset_consistency that only ever counts up.
reset_counter_after_sticky(counter, objs) ==
    IF Len(objs) = 0 THEN counter + 1 ELSE counter

\* should_reset_consistency: the counter after the call; it returns
\* counter >= max_reset_frames.
reset_counter_after(counter, objs) ==
    IF Len(objs) = 0 THEN counter + 1 ELSE 0

\* should_reset_consistency firing one frame late.
should_reset_consistency_late(counter, objs) ==
    reset_counter_after(counter, objs) > max_reset_frames

should_reset_consistency(counter, objs) ==
    reset_counter_after(counter, objs) >= max_reset_frames

\* ------------------------------------------------------------------ anchor smoother
\* The averages are None or <<avg_x, avg_y, avg_w, avg_h>>, each a rational.
\* update_haar_averages: avg = 0.3 * new + 0.7 * avg, or the observation itself
\* the first time.
EmaHaar(new, avg) == Rat(3 * new * avg[2] + 7 * avg[1], 10 * avg[2])

haar_averages_after(average_haar, haar_face) ==
    IF average_haar # None
    THEN << EmaHaar(haar_face[1], average_haar[1]), EmaHaar(haar_face[2], average_haar[2]),
            EmaHaar(haar_face[3], average_haar[3]), EmaHaar(haar_face[4], average_haar[4]) >>
    ELSE << RInt(haar_face[1]), RInt(haar_face[2]), RInt(haar_face[3]), RInt(haar_face[4]) >>

\* what update_haar_averages returns: [int(average_haar_x), ...]
\* The averages to the nearest integer, halves upward.
update_haar_averages_nearest(average_haar, haar_face) ==
    LET a == haar_averages_after(average_haar, haar_face)
    IN  [i \in 1..4 |-> RFloor(RAdd(a[i], Rat(1, 2)))]

update_haar_averages(average_haar, haar_face) ==
    LET a == haar_averages_after(average_haar, haar_face)
    IN  << RTrunc(a[1]), RTrunc(a[2]), RTrunc(a[3]), RTrunc(a[4]) >>

\* The exposed anchor assigned without the test of line 770.
smoothed_haar_after_unguarded(exposed, average_haar, haar_face) ==
    IF haar_face # None THEN update_haar_averages(average_haar, haar_face) ELSE None

\* Lines 770-772: the exposed smoothed anchor after the detector answered
\* haar_face (None: it found nothing, or was not invoked).
smoothed_haar_after(exposed, average_haar, haar_face) ==
    IF haar_face # None THEN update_haar_averages(average_haar, haar_face) ELSE exposed

\* average_haar_x + (average_haar_w or 0) // 2, and the same for y: <<cx, cy>>
haar_avg_center(average_haar) ==
    << RAdd(average_haar[1], RInt(RFloor(RScale(average_haar[3], 1, 2)))),
       RAdd(average_haar[2], RInt(RFloor(RScale(average_haar[4], 1, 2)))) >>

RSquare(a) == Rat(a[1] * a[1], a[2] * a[2])

\* ------------------------------------------------------------------ anchor scheduler
\* calculate_adaptive_haar_interval, in ticks of 0.1 s.
calculate_adaptive_haar_interval(haar_position, last_position, average_haar) ==
    IF haar_position = None THEN 5
    ELSE IF last_position = None THEN 5
    ELSE
      LET position_change2 == Dist2(haar_position, last_position)
          c == IF average_haar # None THEN haar_avg_center(average_haar) ELSE <<RInt(0), RInt(0)>>
          distance_from_avg2 ==
              IF average_haar # None
              THEN RAdd(RSquare(RSub(RInt(CenterX(haar_position)), c[1])),
                        RSquare(RSub(RInt(CenterY(haar_position)), c[2])))
              ELSE RInt(0)
          t == haar_position_change_threshold
      IN  IF position_change2 > t * t \/ RLess(RInt(30 * 30), distance_from_avg2) THEN 1
          ELSE IF 4 * position_change2 > t * t \/ RLess(RInt(15 * 15), distance_from_avg2) THEN 2
          ELSE IF 25 * position_change2 > t * t \/ RLess(RInt(8 * 8), distance_from_avg2) THEN 4
          ELSE 10

\* ------------------------------------------------------------------ heatmap
\* The grid is a float array of the size of the frame; the model keeps the
\* cells of HeatProbes, <<row, column>>.  The heat of a cell is a sum, kept as
\* the sequence of its terms: the term [d2, m2, outs, ins] is the heat
\* 0.4 * (1 - 0.1 * min(sqrt(d2 / m2), 1)) once added, multiplied outs times by
\* 0.1 and ins times by 0.98.  The empty sequence is 0.
heatmap_reset_distance == 100
HeatPadding == 5
HeatProbes ==
    { <<60, 10>>, <<60, 69>>, <<60, 70>>, <<60, 94>>, <<60, 95>>, <<60, 120>>,
      <<44, 10>>, <<45, 10>>, <<114, 10>>, <<115, 10>>,
      <<100, 144>>, <<100, 145>>, <<100, 200>>, <<100, 399>>,
      <<254, 200>>, <<255, 200>>, <<290, 390>> }

\* The reset test with the distance of exactly heatmap_reset_distance included.
heatmap_moved_inclusive(old, haar) ==
    Dist2(haar, old) >= heatmap_reset_distance * heatmap_reset_distance

\* distance > heatmap_reset_distance between the centres of the stored and the
\* current anchor (the squared distance is an integer).
heatmap_moved(old, haar) ==
    Dist2(haar, old) > heatmap_reset_distance * heatmap_reset_distance

\* The mask without the padding.
haar_mask_unpadded(haar) ==
    << haar[1], haar[2], Min(FrameW - haar[1], haar[3]), Min(FrameH - haar[2], haar[4]) >>

\* <<padded_x, padded_y, padded_w, padded_h>>: haar_mask is True on the rows
\* padded_y .. padded_y + padded_h - 1 and the columns padded_x ..
\* padded_x + padded_w - 1.
haar_mask(haar) ==
    LET padded_x == Max(0, haar[1] - HeatPadding)
        padded_y == Max(0, haar[2] - HeatPadding)
    IN  << padded_x, padded_y,
           Min(FrameW - padded_x, haar[3] + 2 * HeatPadding),
           Min(FrameH - padded_y, haar[4] + 2 * HeatPadding) >>

\* Whether the cell <<row, column>> is in the slice [y : y + h, x : x + w].
InSlice(cell, r) ==
    /\ r[2] <= cell[1] /\ cell[1] < r[2] + r[4]
    /\ r[1] <= cell[2] /\ cell[2] < r[1] + r[3]

\* heatmap[~haar_mask] *= 0.1 and heatmap[haar_mask] *= 0.98, on one cell.
decayed(terms, inside) ==
    [i \in 1..Len(terms) |->
        IF inside THEN [terms[i] EXCEPT !.ins = @ + 1] ELSE [terms[i] EXCEPT !.outs = @ + 1]]

\* heat_intensity for an object under the anchor haar, as a term.
heat_intensity(obj, haar) ==
    LET m2 == (haar[3] \div 2 + HeatPadding) * (haar[3] \div 2 + HeatPadding)
              + (haar[4] \div 2 + HeatPadding) * (haar[4] \div 2 + HeatPadding)
    IN  [d2 |-> Min(Dist2(obj, haar), m2), m2 |-> m2, outs |-> 0, ins |-> 0]

\* Whether the centre of the object is inside the padded area, borders included.
center_in_padded(obj, mask) ==
    /\ mask[1] <= CenterX(obj) /\ CenterX(obj) <= mask[1] + mask[3]
    /\ mask[2] <= CenterY(obj) /\ CenterY(obj) <= mask[2] + mask[4]

\* The loop over current_objects, on one cell: heat added where the cell is in
\* the box of an object whose centre is in the padded area.
\* A loop that assigns the heat of an object to its box instead of adding it.
RECURSIVE add_heat_assigned(_, _, _, _, _)
add_heat_assigned(terms, cell, objs, haar, mask) ==
    IF objs = << >> THEN terms
    ELSE add_heat_assigned(IF center_in_padded(Head(objs), mask) /\ InSlice(cell, Head(objs))
                           THEN << heat_intensity(Head(objs), haar) >>
                           ELSE terms,
                           cell, Tail(objs), haar, mask)

RECURSIVE add_heat(_, _, _, _, _)
add_heat(terms, cell, objs, haar, mask) ==
    IF objs = << >> THEN terms
    ELSE add_heat(IF center_in_padded(Head(objs), mask) /\ InSlice(cell, Head(objs))
                  THEN Append(terms, heat_intensity(Head(objs), haar))
                  ELSE terms,
                  cell, Tail(objs), haar, mask)

\* update_heatmap: the grid and the stored anchor as the call leaves them; a
\* grid that is absent or discarded is filled with zeros before the decay.
update_heatmap(grid, old, haar, objs) ==
    IF haar = None THEN [heatmap |-> grid, heatmap_haar_position |-> old]
    ELSE LET zeros == grid = None \/ (old # None /\ heatmap_moved(old, haar))
             mask == haar_mask(haar)
         IN  [heatmap |->
                  [c \in HeatProbes |->
                      add_heat(IF zeros THEN << >> ELSE decayed(grid[c], InSlice(c, mask)),
                               c, objs, haar, mask)],
              heatmap_haar_position |-> haar]

\* ------------------------------------------------------------------ candidate selector
\* The search window: the anchor padded by 5 px, clipped as the code clips it.
SearchWindow(haar) ==
    LET search_x == Max(0, haar[1] - search_padding)
        search_y == Max(0, haar[2] - search_padding)
    IN  << search_x, search_y,
           Min(FrameW - search_x, haar[3] + 2 * search_padding),
           Min(FrameH - search_y, haar[4] + 2 * search_padding) >>

\* The external contour detector on the search region: the blobs of the scene that
\* lie inside the region, as bounding rectangles local to the region.
RECURSIVE findContours(_, _)
findContours(blobs, win) ==
    IF blobs = << >> THEN << >>
    ELSE LET b == Head(blobs)
             rest == findContours(Tail(blobs), win)
         IN  IF /\ b[1] >= win[1] /\ b[2] >= win[2]
                /\ b[1] + b[3] <= win[1] + win[3] /\ b[2] + b[4] <= win[2] + win[4]
             THEN << <<b[1] - win[1], b[2] - win[2], b[3], b[4]>> >> \o rest
             ELSE rest

\* A filter that lets the bounds themselves through: 0.3 <= size/haar_size <= 3.0
\* and 0.5 <= w/h <= 2.0.
RECURSIVE potential_objects_closed(_, _, _)
potential_objects_closed(contours, win, haar_size) ==
    IF contours = << >> THEN << >>
    ELSE LET c == Head(contours)
             rest == potential_objects_closed(Tail(contours), win, haar_size)
             contour_size == c[3] * c[4]
         IN  IF /\ 3 * haar_size <= 10 * contour_size /\ contour_size <= 3 * haar_size
                /\ c[4] <= 2 * c[3] /\ c[3] <= 2 * c[4]
             THEN << <<win[1] + c[1], win[2] + c[2], c[3], c[4]>> >> \o rest
             ELSE rest

\* potential_objects: 0.3 < size/haar_size < 3.0 and 0.5 < w/h < 2.0, translated
\* back to frame coordinates.
RECURSIVE potential_objects(_, _, _)
potential_objects(contours, win, haar_size) ==
    IF contours = << >> THEN << >>
    ELSE LET c == Head(contours)
             rest == potential_objects(Tail(contours), win, haar_size)
             contour_size == c[3] * c[4]
         IN  IF /\ 3 * haar_size < 10 * contour_size /\ contour_size < 3 * haar_size
                /\ c[4] < 2 * c[3] /\ c[3] < 2 * c[4]
             THEN << <<win[1] + c[1], win[2] + c[2], c[3], c[4]>> >> \o rest
             ELSE rest

\* score(o1) < score(o2), score = distance to the anchor centre
\* + 50 * |1 - size / haar_size|.
ScoreLess(o1, o2, haar) ==
    LET hs == Area(haar)
        d1 == Dist2(o1, haar)
        d2 == Dist2(o2, haar)
        k1 == Abs(hs - Area(o1))
        k2 == Abs(hs - Area(o2))
        a == ISqrt(d1 * 256)
        b == ISqrt(d2 * 256)
    IN  IF d1 = d2 THEN k1 < k2
        ELSE IF k1 = k2 THEN d1 < d2
        ELSE IF (a - b + 1) * hs <= 50 * 16 * (k2 - k1) THEN TRUE
        ELSE IF (a - b - 1) * hs >= 50 * 16 * (k2 - k1) THEN FALSE
        ELSE Undecided

\* best_object: the first object of lowest score.
RECURSIVE best_object(_, _, _)
best_object(objs, best, haar) ==
    IF objs = << >> THEN best
    ELSE IF best = None \/ ScoreLess(Head(objs), best, haar)
         THEN best_object(Tail(objs), Head(objs), haar)
         ELSE best_object(Tail(objs), best, haar)

\* A default area that starts at the frame's centre instead of around it.
DefaultWindow_offcentre ==
    << Max(0, Min(FrameW \div 2, FrameW - DefaultSize)),
       Max(0, Min(FrameH \div 2, FrameH - DefaultSize)),
       DefaultSize, DefaultSize >>

\* The default face area when there is no anchor.
DefaultWindow ==
    << Max(0, Min(FrameW \div 2 - 100, FrameW - DefaultSize)),
       Max(0, Min(FrameH \div 2 - 100, FrameH - DefaultSize)),
       DefaultSize, DefaultSize >>

\* current_objects of the frame.
\* A selector without the fallback of lines 857-869.
select_candidates_anchored(haar_position, blobs) ==
    IF haar_position # None
    THEN LET win == SearchWindow(haar_position)
         IN  IF win[3] > 0 /\ win[4] > 0
             THEN LET pot == potential_objects(findContours(blobs, win), win, Area(haar_position))
                  IN  IF pot # << >> THEN << best_object(pot, None, haar_position) >> ELSE << >>
             ELSE << >>
    ELSE << >>

select_candidates(haar_position, blobs) ==
    IF haar_position # None
    THEN LET win == SearchWindow(haar_position)
         IN  IF win[3] > 0 /\ win[4] > 0
             THEN LET pot == potential_objects(findContours(blobs, win), win, Area(haar_position))
                  IN  IF pot # << >> THEN << best_object(pot, None, haar_position) >> ELSE << >>
             ELSE << >>
    ELSE << DefaultWindow >>

\* ------------------------------------------------------------------ position integrator
\* Triples <<alpha (per mille), old, target>> where the double evaluation of
\* int(alpha * old + (1 - alpha) * target) is one below the exact value (the
\* exact value is an integer and the double sum falls just under it).
FloatShortfall == { }

\* int(alpha * old + (1 - alpha) * target), alpha in per mille
MixTrunc(alpha, old, target) ==
    (alpha * old + (1000 - alpha) * target) \div 1000
    - (IF <<alpha, old, target>> \in FloatShortfall THEN 1 ELSE 0)

\* best_match: the first object nearest to the most consistent object.
RECURSIVE best_match(_, _, _)
best_match(objs, best, ref) ==
    IF objs = << >> THEN best
    ELSE IF best = None \/ Dist2(ref, Head(objs)) < Dist2(ref, best)
         THEN best_match(Tail(objs), Head(objs), ref)
         ELSE best_match(Tail(objs), best, ref)

LCM(a, b) == (a \div GCD(a, b)) * b

\* abs(haar_to_target - current_to_target) < 30, haar_to_target the distance from
\* the rational centre c to the integer point <<tx, ty>>, current_to_target the
\* square root of the integer distance2.
both_moving_toward_target(c, tx, ty, distance2) ==
    LET dx == RSub(c[1], RInt(tx))
        dy == RSub(c[2], RInt(ty))
        D == LCM(dx[2], dy[2])
        nx == dx[1] * (D \div dx[2])
        ny == dy[1] * (D \div dy[2])
        p == nx * nx + ny * ny
        q == distance2 * D * D
        a == ISqrt(p)
        b == ISqrt(q)
    IN  IF a * a = p /\ b * b = q THEN Abs(a - b) < 30 * D
        ELSE IF a - b + 1 <= 30 * D /\ a - b - 1 >= -(30 * D) THEN TRUE
        ELSE IF a - b - 1 >= 30 * D \/ a - b + 1 <= -(30 * D) THEN FALSE
        ELSE Undecided

\* floor(tan(deg) * 10^9) for the thresholds of the angle table
TanE9(deg) ==
    CASE deg = 5 -> 87488663
      [] deg = 10 -> 176326980
      [] deg = 15 -> 267949192
      [] deg = 25 -> 466307658
      [] deg = 40 -> 839099631

\* movement_angle < deg, for the angle between the vectors h (rational) and f
\* (integer): arccos of the clamped normalised dot product, in degrees; 0 when
\* either vector is zero.
AngleBelow(h, f, deg) ==
    IF (h[1][1] = 0 /\ h[2][1] = 0) \/ (f[1] = 0 /\ f[2] = 0) THEN TRUE
    ELSE LET D == LCM(h[1][2], h[2][2])
             hx == h[1][1] * (D \div h[1][2])
             hy == h[2][1] * (D \div h[2][2])
             dot == hx * f[1] + hy * f[2]
             cross == Abs(hx * f[2] - hy * f[1])
         IN  IF dot <= 0 THEN FALSE
             ELSE IF ~FracLess(TanE9(deg), 1000000000, cross, dot) THEN TRUE
             ELSE IF ~FracLess(cross, dot, TanE9(deg) + 1, 1000000000) THEN FALSE
             ELSE Undecided

\* A speed taken from the distance whether or not the movement is coordinated.
pos_alpha_by_distance(coordinated, h, f, distance2) ==
    IF distance2 < 10 * 10 THEN 20
    ELSE IF distance2 < 25 * 25 THEN 100
    ELSE IF distance2 < 50 * 50 THEN 250
    ELSE IF distance2 < 80 * 80 THEN 500
    ELSE IF distance2 < 120 * 120 THEN 800
    ELSE 950

\* pos_alpha in per mille
pos_alpha(coordinated, h, f, distance2) ==
    IF coordinated
    THEN IF AngleBelow(h, f, 5) THEN 1
         ELSE IF AngleBelow(h, f, 10) THEN 5
         ELSE IF AngleBelow(h, f, 15) THEN 10
         ELSE IF AngleBelow(h, f, 25) THEN 20
         ELSE IF AngleBelow(h, f, 40) THEN 50
         ELSE 100
    ELSE IF distance2 < 10 * 10 THEN 20
         ELSE IF distance2 < 25 * 25 THEN 100
         ELSE IF distance2 < 50 * 50 THEN 250
         ELSE IF distance2 < 80 * 80 THEN 500
         ELSE IF distance2 < 120 * 120 THEN 800
         ELSE 950

\* average_face_size after its update: 0.1 * current + 0.9 * average, or the
\* current size the first time.
average_face_size_after(avg, current_size) ==
    IF avg # None THEN Rat(current_size * avg[2] + 9 * avg[1], 10 * avg[2])
    ELSE RInt(current_size)

\* A size speed that tests "too big" before "getting bigger while far".
size_alpha_big_first(avg, current_size, target_size, distance2) ==
    LET base == IF distance2 < 20 * 20 THEN 700
                ELSE IF distance2 < 50 * 50 THEN 800
                ELSE IF distance2 < 100 * 100 THEN 900
                ELSE 950
    IN  IF FracLess(current_size * avg[2], avg[1], 4, 5) THEN 950
        ELSE IF FracLess(current_size * avg[2], avg[1], 9, 10) THEN 900
        ELSE IF FracLess(13, 10, current_size * avg[2], avg[1]) THEN 800
        ELSE IF FracLess(6, 5, target_size * avg[2], avg[1]) /\ distance2 > 50 * 50 THEN 980
        ELSE base

\* size_alpha in per mille; avg is the updated average.
size_alpha(avg, current_size, target_size, distance2) ==
    LET base == IF distance2 < 20 * 20 THEN 700
                ELSE IF distance2 < 50 * 50 THEN 800
                ELSE IF distance2 < 100 * 100 THEN 900
                ELSE 950
    IN  IF FracLess(current_size * avg[2], avg[1], 4, 5) THEN 950
        ELSE IF FracLess(current_size * avg[2], avg[1], 9, 10) THEN 900
        ELSE IF FracLess(6, 5, target_size * avg[2], avg[1]) /\ distance2 > 50 * 50 THEN 980
        ELSE IF FracLess(13, 10, current_size * avg[2], avg[1]) THEN 800
        ELSE base

\* What the interpolation worked with in a call; ran = FALSE when the call
\* returned before it.
NoIntegration ==
    [ran |-> FALSE, old |-> None, target |-> None, coordinated |-> FALSE, have_prev |-> FALSE,
     h |-> None, f |-> None, distance2 |-> 0, pos_alpha |-> 0, size_alpha |-> 0,
     updated |-> None]

\* Lines 438-518 with one speed, that of the position, for all four numbers.
blend_one_speed(face, target, center, current_center, coordinated, have_prev, h, f, distance2, new_avg) ==
    LET pa == pos_alpha(coordinated, h, f, distance2)
        updated == << MixTrunc(pa, face[1], target[1]), MixTrunc(pa, face[2], target[2]),
                      MixTrunc(pa, face[3], target[3]), MixTrunc(pa, face[4], target[4]) >>
    IN  [face |-> updated,
         raised |-> FALSE,
         average_face_size |-> new_avg,
         previous_haar_center |-> center,
         previous_face_center |-> current_center,
         integration |->
             [ran |-> TRUE, old |-> face, target |-> target, coordinated |-> coordinated,
              have_prev |-> have_prev, h |-> h, f |-> f, distance2 |-> distance2,
              pos_alpha |-> pa, size_alpha |-> pa, updated |-> updated]]

\* Lines 438-518 once the angle and the distances are known: the two speeds,
\* the interpolation (updated_x .. updated_h), and the centres remembered for
\* the next call.
blend(face, target, center, current_center, coordinated, have_prev, h, f, distance2, new_avg) ==
    LET pa == pos_alpha(coordinated, h, f, distance2)
        sa == size_alpha(new_avg, Area(face), Area(target), distance2)
        updated == << MixTrunc(pa, face[1], target[1]), MixTrunc(pa, face[2], target[2]),
                      MixTrunc(sa, face[3], target[3]), MixTrunc(sa, face[4], target[4]) >>
    IN  [face |-> updated,
         raised |-> FALSE,
         average_face_size |-> new_avg,
         previous_haar_center |-> center,
         previous_face_center |-> current_center,
         integration |->
             [ran |-> TRUE, old |-> face, target |-> target, coordinated |-> coordinated,
              have_prev |-> have_prev, h |-> h, f |-> f, distance2 |-> distance2,
              pos_alpha |-> pa, size_alpha |-> sa, updated |-> updated]]

\* Lines 377-518 without the averages and without stored centres: the movement
\* is not coordinated, the speeds and the interpolation are computed, and line
\* 513 raises before anything is returned.
integrate_unanchored(face, target, new_avg) ==
    blend(face, target, None, <<CenterX(face), CenterY(face)>>, FALSE, FALSE,
          <<RInt(0), RInt(0)>>, <<0, 0>>, Dist2(face, target), new_avg)

\* Lines 377-436 with the averages present: the distance to the target, whether
\* the movement is coordinated, and the two motion vectors (zero when no
\* previous centres are stored); center is the centre of the averages.
integrate_toward(face, target, center, prev_haar, prev_face, new_avg) ==
    LET current_center == <<CenterX(face), CenterY(face)>>
        distance2 == Dist2(face, target)
        have_prev == prev_haar # None /\ prev_face # None
        coordinated ==
            both_moving_toward_target(center, CenterX(target), CenterY(target), distance2)
        h == IF have_prev
             THEN <<RSub(center[1], prev_haar[1]), RSub(center[2], prev_haar[2])>>
             ELSE <<RInt(0), RInt(0)>>
        f == IF have_prev
             THEN <<current_center[1] - prev_face[1], current_center[2] - prev_face[2]>>
             ELSE <<0, 0>>
    IN  blend(face, target, center, current_center, coordinated, have_prev, h, f, distance2, new_avg)

\* The globals of a second call of update_consistent_face_position and what it
\* left; NoTwin where there is no second call.
NoTwin ==
    [average_haar |-> None, previous_haar_center |-> None, previous_face_center |-> None,
     average_face_size |-> None, integration |-> NoIntegration]

\* update_consistent_face_position with the size average taken before the
\* early return of lines 360-361 instead of after it: a call with a face and
\* no candidates leaves a new average_face_size behind.
update_consistent_face_position_eager(face, objs, most_consistent_object, average_haar, avg_size, prev_haar, prev_face) ==
    LET new_avg == IF face = None THEN avg_size ELSE average_face_size_after(avg_size, Area(face))
        unchanged == [face |-> face, raised |-> FALSE, average_face_size |-> new_avg,
                      previous_haar_center |-> prev_haar, previous_face_center |-> prev_face,
                      integration |-> NoIntegration]
        have_haar == average_haar # None
        have_prev == prev_haar # None /\ prev_face # None
    IN  IF face = None \/ objs = << >> \/ most_consistent_object = None THEN unchanged
        ELSE IF ~have_haar /\ have_prev
        THEN [unchanged EXCEPT !.raised = TRUE, !.average_face_size = avg_size]
        ELSE IF ~have_haar
        THEN [unchanged EXCEPT !.raised = TRUE,
                               !.integration =
                                   integrate_unanchored(face, best_match(objs, None, most_consistent_object),
                                                        new_avg).integration]
        ELSE integrate_toward(face, best_match(objs, None, most_consistent_object),
                              haar_avg_center(average_haar), prev_haar, prev_face, new_avg)

\* update_consistent_face_position.  The globals it reads are passed in; the
\* result is the rectangle it returns and the globals as it leaves them, or
\* raised = TRUE where it reads haar_avg_center_x before any assignment to it
\* (UnboundLocalError), with the globals as they are at that line.
update_consistent_face_position(face, objs, most_consistent_object, average_haar, avg_size, prev_haar, prev_face) ==
    LET unchanged == [face |-> face, raised |-> FALSE, average_face_size |-> avg_size,
                      previous_haar_center |-> prev_haar, previous_face_center |-> prev_face,
                      integration |-> NoIntegration]
    IN
    IF face = None \/ objs = << >> \/ most_consistent_object = None THEN unchanged
    ELSE
      LET have_haar == average_haar # None
          have_prev == prev_haar # None /\ prev_face # None
          new_avg == average_face_size_after(avg_size, Area(face))
      IN  IF ~have_haar /\ have_prev
          THEN [unchanged EXCEPT !.raised = TRUE]
          ELSE IF ~have_haar
          THEN [unchanged EXCEPT !.raised = TRUE, !.average_face_size = new_avg,
                                 !.integration =
                                     integrate_unanchored(face, best_match(objs, None, most_consistent_object),
                                                          new_avg).integration]
          ELSE integrate_toward(face, best_match(objs, None, most_consistent_object),
                                haar_avg_center(average_haar), prev_haar, prev_face, new_avg)

\* The nearest object to the last known face (the reconnect loop).
nearest_object(objs, last_face) == best_match(objs, None, last_face)

\* The reconnect branch accepting a nearest object at exactly 150 px.
reconnect_face_inclusive(objs, last_face) ==
    LET nearest == nearest_object(objs, last_face)
    IN  IF Dist2(last_face, nearest) <= ReconnectThreshold * ReconnectThreshold
        THEN nearest
        ELSE None

\* The reconnect branch (taken when there is no vote, a last known face and a
\* candidate): the nearest object if nearest_distance < 150, else no face.
\* sqrt(d2) < 150 is d2 < 150 * 150: d2 is an integer and sqrt is monotone and
\* exact on 22500.
reconnect_face(objs, last_face) ==
    LET nearest == nearest_object(objs, last_face)
    IN  IF Dist2(last_face, nearest) < ReconnectThreshold * ReconnectThreshold
        THEN nearest
        ELSE None

\* ------------------------------------------------------------------ state
VARIABLES
    status,                     \* "running", "raised" (the loop died of an exception), "stopped"
    frame_shape,                \* <<height, width>> of the frame
    elapsed,                    \* current_time - last_haar_detection_time, in ticks, capped at 10
    adaptive_interval,          \* the interval selected for the frame, in ticks; 0 before frame 1
    haar_face_position,         \* the smoothed anchor, integers, or None
    haar_last_position,         \* the last raw anchor, or None
    average_haar,               \* <<average_haar_x, _y, _w, _h>>, or None
    current_objects,
    object_history,
    last_consistent_face,
    consistency_reset_counter,
    consistent_face,            \* the face output of the frame, or None
    is_reconnected,
    padded_face,
    average_face_size,
    previous_haar_center,       \* <<previous_haar_center_x, _y>>, or None
    previous_face_center,       \* <<previous_face_center_x, _y>>, or None
    heatmap,                    \* the heat of the cells of HeatProbes, or None
    heatmap_haar_position,      \* the anchor the heatmap was last updated with, or None
    eye_history,                \* the eye detections of the last frames with a face
    consistent_eyes,            \* what find_most_consistent_eyes last returned
    last_consistent_eyes,       \* the consistent eyes after update_eye_positions, or None
    voted,                      \* what find_most_consistent_object returned in the frame
    face_source,                \* "none", "vote" or "reconnect": the branch that set consistent_face
    reset_fired,                \* whether the frame cleared the history
    haar_invoked,               \* whether the frame invoked the anchor detector
    candidate_log,              \* the number of candidates of each frame so far
    frames,                     \* frames processed
    haar_observations,          \* anchor observations so far
    haar_raw_before,            \* the raw anchor observed before the one in haar_last_position
    integration,                \* what the integrator worked with in the frame
    twin,                       \* a second call of the integrator, on other globals
    heatmap_haar_before,        \* heatmap_haar_position as the frame found it
    eyes_tracked,               \* whether the frame looked for eyes
    haar_first,                 \* the first raw anchor observed, or None
    last_reset_frame,           \* the number of the last frame that cleared the history, or 0
    phase, left, input          \* the scene: the run it is in, frames left in it, its content

side_vars == << heatmap, heatmap_haar_position, eye_history, consistent_eyes, last_consistent_eyes >>
prog_vars == << status, frame_shape, elapsed, adaptive_interval, haar_face_position, haar_last_position, average_haar,
                current_objects, object_history, last_consistent_face, consistency_reset_counter,
                consistent_face, is_reconnected, padded_face, average_face_size,
                previous_haar_center, previous_face_center, side_vars >>
obs_vars == << voted, face_source, reset_fired, haar_invoked, candidate_log, frames, haar_observations,
              haar_raw_before, integration, twin, heatmap_haar_before, eyes_tracked, haar_first,
              last_reset_frame >>
env_vars == << phase, left, input >>
vars == << prog_vars, obs_vars, env_vars >>

\* ------------------------------------------------------------------ the scene
\* What the detectors are shown.  A scene is a sequence of runs; during a run the
\* frame period (dt, in ticks), the anchor detector's answer (haar) and the blobs
\* the contour detector can find stay the same.  A script gives, for each run in
\* turn, the contents and the lengths it may have.
AnchorH1 == <<150, 50, 250, 200>>
AnchorH2 == <<100, 50, 200, 200>>
\* the anchor 11, 25 and 40 px further down
AnchorH3 == <<150, 61, 250, 200>>
AnchorH4 == <<150, 75, 250, 200>>
AnchorH5 == <<150, 90, 250, 200>>
BlobR == <<150, 50, 250, 200>>
BlobR2 == <<148, 52, 252, 198>>
BlobS == <<250, 50, 150, 200>>
BlobA == <<145, 45, 100, 160>>
BlobF == <<300, 95, 100, 160>>
\* BlobA moved right by 149 and by 150 pixels
BlobA149 == <<294, 45, 100, 160>>
BlobA150 == <<295, 45, 100, 160>>
\* the anchor moved by (-20, 10), (-20, 7), (-20, 5), (-20, 3), (-20, 0) and
\* (-20, -10): the smoothed centre then moves at 0, 7, 12, 18, 26 and 53 degrees
\* from the direction (-2, 1)
AnchorTurn0 == <<130, 60, 250, 200>>
AnchorTurn7 == <<130, 57, 250, 200>>
AnchorTurn12 == <<130, 55, 250, 200>>
AnchorTurn18 == <<130, 53, 250, 200>>
AnchorTurn26 == <<130, 50, 250, 200>>
AnchorTurn53 == <<130, 40, 250, 200>>
\* a face and the same face moved by (-2, 1), with the same quantized key
BlobP == <<160, 60, 220, 180>>
BlobP2 == <<158, 62, 221, 179>>
\* BlobA as found 5 px taller, with the same quantized key
BlobA2 == <<145, 45, 100, 165>>
\* BlobA moved by 5, 20, 40, 50 and 100 px
BlobA5 == <<150, 45, 100, 160>>
BlobA20 == <<165, 45, 100, 160>>
BlobA40 == <<145, 85, 100, 160>>
BlobA50 == <<145, 95, 100, 160>>
BlobA100 == <<245, 45, 100, 160>>
\* a face of about 0.86 times the area of BlobP
BlobQ == <<170, 65, 200, 170>>
\* blobs at the bounds of the filter under AnchorH1 (area 50000): area 0.3 times
\* the anchor's, aspect 0.5, aspect 2.0; and just inside each bound
BlobArea03 == <<150, 50, 100, 150>>
BlobArea03In == <<150, 50, 100, 151>>
BlobAspect05 == <<150, 50, 100, 200>>
BlobAspect05In == <<150, 50, 101, 200>>
BlobAspect2 == <<150, 50, 240, 120>>
BlobAspect2In == <<150, 50, 239, 120>>
\* too small for the filter, and outside the search window
BlobSmall == <<200, 100, 50, 50>>
BlobOut == <<10, 10, 100, 150>>

MaxHaarObservations == 3
TailFrames == 2

Scene(dt, haar, blobs) == [dt |-> dt, haar |-> haar, blobs |-> blobs, eyes |-> << >>]
\* The same with what the eye detector finds in the face region, if it is asked.
SceneEyes(dt, haar, blobs, eyes) == [dt |-> dt, haar |-> haar, blobs |-> blobs, eyes |-> eyes]
Run(inputs, lens) == [inputs |-> inputs, lens |-> lens]

\* Short scenes: every combination, three runs.
ScriptMain ==
    LET any == { Scene(dt, h, b) : dt \in {1, 5}, h \in {None, AnchorH1},
                                    b \in { << >>, <<BlobR>>, <<BlobR2>>, <<BlobS>> } }
    IN  << Run(any, {min_consistency_frames - 1, min_consistency_frames}),
           Run(any, {1, TailFrames}),
           Run(any, {1}) >>

\* A moving anchor: frames 0.1 s, 0.5 s or 1 s apart on which the detector, when
\* invoked, finds the anchor at one of five places or not at all; too few frames
\* for a vote.
ScriptAnchor ==
    LET any == { Scene(dt, h, <<BlobR>>) :
                   dt \in {1, 5, 10},
                   h \in {None, AnchorH1, AnchorH3, AnchorH4, AnchorH5} }
    IN  << Run(any, {1}), Run(any, {1}), Run(any, {1, TailFrames}), Run(any, {1}) >>

\* Scenes for the selector: several blobs at once, some at or next to the
\* bounds of the filter; too few frames for a vote.
ScriptSelect ==
    LET any == { Scene(1, h, b) :
                   h \in {None, AnchorH1},
                   b \in { << >>, <<BlobS, BlobR>>, <<BlobR, BlobS>>, <<BlobA, BlobR2>>,
                            <<BlobArea03>>, <<BlobArea03In>>, <<BlobAspect05>>, <<BlobAspect05In>>,
                            <<BlobAspect2>>, <<BlobAspect2In>>, <<BlobArea03, BlobAspect05>>,
                            <<BlobArea03, BlobAspect05In, BlobAspect2>>,
                            <<BlobSmall, BlobA>>, <<BlobOut, BlobSmall>>, <<BlobOut, BlobS, BlobA>> } }
    IN  << Run(any, {1}), Run(any, {1, TailFrames}) >>

\* Scenes for the integrator: a face for 10 frames 0.1 s apart (the detector is
\* invoked on frames 1 and 11), then two frames on which the anchor may have
\* moved in one of six directions and the face may have moved or jumped.
ScriptTrack ==
    LET first == { Scene(1, AnchorH1, <<b>>) : b \in {BlobP, BlobA} }
        any == { Scene(1, h, b) :
                   h \in {AnchorH1, AnchorTurn0, AnchorTurn7, AnchorTurn12, AnchorTurn18,
                           AnchorTurn26, AnchorTurn53},
                   b \in { << >>, <<BlobP>>, <<BlobP2>>, <<BlobA>>, <<BlobA5>>, <<BlobA20>>,
                            <<BlobA40>>, <<BlobA50>>, <<BlobA100>>, <<BlobF>> } }
    IN  << Run(first, {min_consistency_frames}), Run(any, {1}), Run(any, {1}) >>

\* Scenes for the size speed: a face for 10 frames, another for 10 or 11 more
\* (at the 11th the vote passes to it, with a different area), then two frames
\* of anything.
ScriptResize ==
    LET show(bs) == { Scene(1, AnchorH1, <<b>>) : b \in bs }
        any == { Scene(1, AnchorH1, b) :
                   b \in { << >>, <<BlobR>>, <<BlobA>>, <<BlobP>>, <<BlobQ>>, <<BlobS>>,
                            <<BlobA40>>, <<BlobA100>> } }
    IN  << Run(show({BlobR, BlobA, BlobP}), {min_consistency_frames}),
           Run(show({BlobR, BlobA, BlobQ}), {min_consistency_frames, min_consistency_frames + 1}),
           Run(any, {1}), Run(any, {1}) >>

\* Scenes for the heatmap: the anchor detector runs on every frame (1 s apart)
\* and finds the anchor here or there, with a face or without: a small anchor
\* at the left border, found next at x = 50, 334 or 337 (the smoothed anchor
\* then moves by 15, 100 or 101 px), and faces under it at 0 and at 100.
ScriptHeat ==
    LET at(x) == <<x, 50, 60, 60>>
        face(x) == <<x, 55, 50, 50>>
        faces == { << >>, <<BlobR>>, <<face(5)>>, <<face(100)>>, <<face(5), face(100)>> }
        first == { Scene(10, h, b) : h \in { AnchorH1, at(0) }, b \in faces }
        then == { Scene(10, h, b) :
                    h \in { None, AnchorH1, at(0), at(50), at(334), at(337) }, b \in faces }
    IN  << Run(first, {1}), Run(then, {1}), Run(then, {1}) >>

\* what the eye detector finds in the face region: two eyes
EyeL == <<20, 30, 20, 12>>
EyeR == <<70, 30, 20, 12>>

\* Scenes for the eyes: a face for 9 frames, then four or five frames with
\* that face and these or those eyes: the two eyes, the same a pixel or two
\* away, something lower, and two small blobs with the same key.
ScriptEyes ==
    LET face(es) == { SceneEyes(1, AnchorH1, <<BlobR>>, e) : e \in es }
        EyeL2 == <<21, 31, 20, 12>>
        EyeR2 == <<72, 29, 21, 12>>
        EyeN == <<45, 60, 10, 10>>
        EyeS1 == <<8, 8, 7, 7>>
        EyeS2 == <<12, 12, 7, 7>>
        all == { << >>, <<EyeL, EyeR>>, <<EyeL2, EyeR2>>, <<EyeR, EyeL>>, <<EyeL2>>,
                 <<EyeN, EyeL>>, <<EyeS1, EyeS2>>, <<EyeL, EyeR, EyeN>> }
    IN  << Run(face({ << >> }), {min_consistency_frames - 1}),
           Run(face({ <<EyeL, EyeR>>, <<EyeN, EyeL>>, <<EyeS1, EyeS2>>, <<EyeL, EyeR, EyeN>> }), {1}),
           Run(face(all \ { << >> }), {1, 2}),
           Run(face(all), {1}),
           Run(face(all), {1}) >>

\* A long scene under a steady anchor: a face for 10 frames, then nothing for 39,
\* 40 or 41 frames, then three more gaps of 39 frames, each ended by one frame
\* with a blob elsewhere, until the history is full; then anything.  When the
\* first gap is 39 frames the face's 10 frames are still what the vote returns
\* at frame 150, and they start to leave the history at frame 151.
ScriptLong ==
    LET show(b) == { SceneEyes(1, AnchorH1, b, <<EyeL, EyeR>>) }
        gap == max_reset_frames - 1
        used == min_consistency_frames + 3 * (gap + 1)
        any == { Scene(1, AnchorH1, b) :
                   b \in { << >>, <<BlobA>>, <<BlobA149>>, <<BlobA150>>, <<BlobF>>, <<BlobS>> } }
    IN  << Run(show(<<BlobA>>), {min_consistency_frames}),
           Run(show(<< >>), {gap, gap + 1, gap + 2}),
           Run(show(<<BlobF>>), {1}),
           Run(show(<< >>), {gap}),
           Run(show(<<BlobF>>), {1}),
           Run(show(<< >>), {gap}),
           Run(show(<<BlobF>>), {1}),
           Run(show(<< >>), {HistoryMaxLen - used}),
           Run(any, {1, TailFrames}),
           Run(any, {1}) >>

\* The long scene with a face whose rectangle varies: a face for 9 frames, the
\* same face found larger or not on the 10th, the face again on the 11th (the
\* vote then returns a rectangle of another area than the one integrated the
\* frame before), then gaps of 39 frames, each ended by one frame with a blob
\* elsewhere, until the history is full at frame 150; then two frames of
\* anything.  The face's key is still voted at frame 151 and, unless it is
\* shown again, no longer at frame 152.
ScriptIdle ==
    LET show(b) == { Scene(1, AnchorH1, b) }
        gap == max_reset_frames - 1
        used == min_consistency_frames + 1 + 3 * (gap + 1)
        any == { Scene(1, AnchorH1, b) :
                   b \in { << >>, <<BlobA>>, <<BlobA2>>, <<BlobA149>>, <<BlobA150>> } }
    IN  << Run(show(<<BlobA>>), {min_consistency_frames - 1}),
           Run(show(<<BlobA>>) \cup show(<<BlobA2>>), {1}),
           Run(show(<<BlobA>>), {1}),
           Run(show(<< >>), {gap}),
           Run(show(<<BlobF>>), {1}),
           Run(show(<< >>), {gap}),
           Run(show(<<BlobF>>), {1}),
           Run(show(<< >>), {gap}),
           Run(show(<<BlobF>>), {1}),
           Run(show(<< >>), {HistoryMaxLen - used}),
           Run(any, {1}), Run(any, {1}) >>

\* Scenes for the time after a reset, frames 1 s apart (the detector is invoked
\* on every frame): a first frame with or without an anchor, then under a
\* steady anchor a face for 10 frames, nothing for 40 or 41 frames (the reset
\* fires on the 40th, and again on the 41st), then a frame of anything, the
\* face for 8 frames and three more frames of anything.
ScriptReset ==
    LET show(b) == { Scene(10, AnchorH1, b) }
        any == { Scene(10, AnchorH1, b) : b \in { << >>, <<BlobA>>, <<BlobA20>>, <<BlobF>> } }
    IN  << Run({ Scene(10, None, <<BlobA>>), Scene(10, AnchorH1, <<BlobA>>) }, {1}),
           Run(show(<<BlobA>>), {min_consistency_frames}),
           Run(show(<< >>), {max_reset_frames, max_reset_frames + 1}),
           Run(any, {1}),
           Run(show(<<BlobA>>), {min_consistency_frames - 2}),
           Run(any, {1}), Run(any, {1}), Run(any, {1}) >>

\* ------------------------------------------------------------------ the frame loop
Init ==
    /\ status = "running"
    /\ frame_shape = <<FrameH, FrameW>>
    /\ elapsed = 10
    /\ adaptive_interval = 0
    /\ haar_face_position = None
    /\ haar_last_position = None
    /\ average_haar = None
    /\ current_objects = << >>
    /\ object_history = << >>
    /\ last_consistent_face = None
    /\ consistency_reset_counter = 0
    /\ consistent_face = None
    /\ is_reconnected = FALSE
    /\ padded_face = None
    /\ average_face_size = None
    /\ previous_haar_center = None
    /\ previous_face_center = None
    /\ heatmap = None
    /\ heatmap_haar_position = None
    /\ eye_history = << >>
    /\ consistent_eyes = << >>
    /\ last_consistent_eyes = None
    /\ voted = None
    /\ face_source = "none"
    /\ reset_fired = FALSE
    /\ haar_invoked = FALSE
    /\ candidate_log = << >>
    /\ frames = 0
    /\ haar_observations = 0
    /\ haar_raw_before = None
    /\ integration = NoIntegration
    /\ twin = NoTwin
    /\ heatmap_haar_before = None
    /\ eyes_tracked = FALSE
    /\ haar_first = None
    /\ last_reset_frame = 0
    /\ phase = 0
    /\ left = 0
    /\ input = Scene(1, None, << >>)

\* The scene of the next frame: the current run goes on, or the next run of the
\* script starts.
NextScene(script) ==
    IF left > 0 THEN { [phase |-> phase, left |-> left - 1, input |-> input] }
    ELSE IF phase < Len(script)
    THEN { [phase |-> phase + 1, left |-> n - 1, input |-> i] :
               i \in script[phase + 1].inputs, n \in script[phase + 1].lens }
    ELSE { }

\* A gate that compares with the base interval instead of the selected one.
detection_due_base(now, interval) == now >= haar_detection_interval

\* The test of line 768: the time since the last invocation has reached the
\* interval selected for the frame.
detection_due(now, interval) == now >= interval

\* The anchor scheduler and smoother (lines 764-774): whether the detector is
\* invoked, what it answers, and the anchor state after it.
AnchorStep(sc) ==
    LET interval ==
            calculate_adaptive_haar_interval(haar_face_position, haar_last_position, average_haar)
        now == Min(elapsed + sc.dt, 10)
        invoke == detection_due(now, interval)
        haar_face == IF invoke /\ haar_observations < MaxHaarObservations THEN sc.haar ELSE None
        observed == haar_face # None
    IN  [ adaptive_interval |-> interval,
          invoke |-> invoke,
          observed |-> observed,
          elapsed |-> IF invoke THEN 0 ELSE now,
          average_haar |-> IF observed THEN haar_averages_after(average_haar, haar_face)
                           ELSE average_haar,
          haar_face_position |-> smoothed_haar_after(haar_face_position, average_haar, haar_face),
          haar_last_position |-> IF observed THEN haar_face ELSE haar_last_position ]

\* The rest of the pass, given the anchor state a, the candidates objs, the
\* history hist1 after the reset check and the append, and the vote.
TrackStep(a, objs, reset, hist1, vote) ==
    LET last0 == IF reset THEN None ELSE last_consistent_face
        upd == update_consistent_face_position(vote, objs, vote, a.average_haar,
                                               average_face_size,
                                               previous_haar_center, previous_face_center)
        tried == vote = None /\ last0 # None /\ Len(objs) > 0
        nearest == IF tried THEN reconnect_face(objs, last0) ELSE None
        reconnect == nearest # None
        raised == vote # None /\ upd.raised
        face == IF vote # None THEN (IF raised THEN vote ELSE upd.face)
                ELSE IF reconnect THEN nearest
                ELSE None
        last1 == IF vote # None /\ ~raised THEN face ELSE last0
    IN  [ raised |-> raised,
          consistent_face |-> face,
          last_consistent_face |-> last1,
          average_face_size |-> upd.average_face_size,
          previous_haar_center |-> upd.previous_haar_center,
          previous_face_center |-> upd.previous_face_center,
          integration |-> upd.integration,
          is_reconnected |->
              IF face # None /\ ~raised
              THEN /\ last1 # None
                   /\ Dist2(face, last1) < ReconnectThreshold * ReconnectThreshold
                   /\ Len(hist1) < min_consistency_frames
              ELSE is_reconnected,
          padded_face |->
              IF face # None /\ ~raised
              THEN add_face_padding(face, frame_shape[2], frame_shape[1], FacePadding)
              ELSE padded_face,
          face_source |-> IF vote # None THEN "vote" ELSE IF reconnect THEN "reconnect" ELSE "none" ]

\* ------------------------------------------------------------------ eye tracker
EyeHistoryMaxLen == 50
min_eye_consistency_frames == 3

\* pos_key of find_most_consistent_eyes: round(v / 5) * 5 (v / 5 is never
\* half-way between two integers).
eye_pos_key(eye) == <<RoundTo(eye[1], 5), RoundTo(eye[2], 5), RoundTo(eye[3], 5), RoundTo(eye[4], 5)>>

\* eye_counts: key -> the number of appearances over the whole history, with
\* the place of the key in the dict, which keeps the keys in the order they
\* were first met (frame by frame, eye by eye).
eye_counts(history) ==
    LET occ == Occurrences(history)
        places(k) == { 100 * o[1] + o[2] : o \in { p \in occ : eye_pos_key(history[p[1]][p[2]]) = k } }
    IN  [k \in { eye_pos_key(history[o[1]][o[2]]) : o \in occ } |->
            [count |-> Cardinality(places(k)),
             order |-> CHOOSE n \in places(k) : \A m \in places(k) : n <= m]]

\* sorted(eye_counts.items(), key=count, reverse=True)[:2]: the sort is stable,
\* so keys of equal count stay in the order of the dict.
sorted_eyes(counts) ==
    LET rank(k) == 10000 * counts[k].count - counts[k].order
        best(keys) == CHOOSE k \in keys : \A l \in keys : rank(l) <= rank(k)
        keys == DOMAIN counts
    IN  IF keys = { } THEN << >>
        ELSE IF Cardinality(keys) = 1 THEN << <<best(keys), counts[best(keys)].count>> >>
        ELSE << <<best(keys), counts[best(keys)].count>>,
                <<best(keys \ {best(keys)}), counts[best(keys \ {best(keys)})].count>> >>

\* The most recent instance of a key: the first eye with the key in the last
\* frame that holds one.
most_recent_eye(history, k) ==
    LET occ == { o \in Occurrences(history) : eye_pos_key(history[o[1]][o[2]]) = k }
        o == CHOOSE o \in occ : \A p \in occ : p[1] < o[1] \/ (p[1] = o[1] /\ p[2] >= o[2])
    IN  history[o[1]][o[2]]

\* The vote returning only the most frequent eye.
find_most_consistent_eyes_single(history) ==
    IF Len(history) < min_eye_consistency_frames THEN << >>
    ELSE LET top == SelectSeq(sorted_eyes(eye_counts(history)), LAMBDA e : e[2] >= min_eye_consistency_frames)
         IN  IF top = << >> THEN << >> ELSE << most_recent_eye(history, top[1][1]) >>

find_most_consistent_eyes(history) ==
    IF Len(history) < min_eye_consistency_frames THEN << >>
    ELSE LET top == SelectSeq(sorted_eyes(eye_counts(history)), LAMBDA e : e[2] >= min_eye_consistency_frames)
         IN  [i \in 1..Len(top) |-> most_recent_eye(history, top[i][1])]

\* An update that moves each eye half-way to the nearest detection.
update_eye_positions_halfway(eyes, current_eyes) ==
    IF eyes = << >> \/ current_eyes = << >> THEN eyes
    ELSE [i \in 1..Len(eyes) |->
            LET n == best_match(current_eyes, None, eyes[i])
            IN  << (eyes[i][1] + n[1]) \div 2, (eyes[i][2] + n[2]) \div 2,
                   (eyes[i][3] + n[3]) \div 2, (eyes[i][4] + n[4]) \div 2 >>]

\* update_eye_positions: each eye becomes the detection whose centre is
\* nearest to its own, the first of them (the loop of lines 729-742 is that of
\* lines 366-371).
update_eye_positions(eyes, current_eyes) ==
    IF eyes = << >> \/ current_eyes = << >> THEN eyes
    ELSE [i \in 1..Len(eyes) |-> best_match(current_eyes, None, eyes[i])]

\* deque(maxlen=50).append without the bound.
eye_history_append_unbounded(history, current_eyes) == Append(history, current_eyes)

\* deque(maxlen=50).append
eye_history_append(history, current_eyes) ==
    IF Len(history) >= EyeHistoryMaxLen
    THEN Append(Tail(history), current_eyes)
    ELSE Append(history, current_eyes)

\* Lines 1050-1059 and 1181: the detections join the history, the consistent
\* eyes are found and, if there are any, moved to the detections and stored.
track_eyes(history, eyes, last_eyes, current_eyes) ==
    LET history1 == eye_history_append(history, current_eyes)
        found == find_most_consistent_eyes(history1)
    IN  [eye_history |-> history1,
         consistent_eyes |-> found,
         last_consistent_eyes |-> IF found # << >> THEN update_eye_positions(found, current_eyes)
                                  ELSE last_eyes,
         tracked |-> TRUE]

\* A tracker that forgets the eyes seen when the frame has no face.
EyeStep_forgetful(t, current_eyes) ==
    IF t.raised \/ t.consistent_face = None
    THEN [eye_history |-> << >>, consistent_eyes |-> consistent_eyes,
          last_consistent_eyes |-> None, tracked |-> FALSE]
    ELSE track_eyes(eye_history, consistent_eyes, last_consistent_eyes, current_eyes)

\* Lines 1017-1059 and 1175-1181 for the eyes: nothing without a face output
\* or with an empty region of the padded face; else the eyes are looked for.
EyeStep(t, current_eyes) ==
    IF t.raised \/ t.consistent_face = None \/ t.padded_face[3] <= 0 \/ t.padded_face[4] <= 0
    THEN [eye_history |-> eye_history, consistent_eyes |-> consistent_eyes,
          last_consistent_eyes |-> last_consistent_eyes, tracked |-> FALSE]
    ELSE track_eyes(eye_history, consistent_eyes, last_consistent_eyes, current_eyes)

\* One pass of the while loop on a frame showing scene sc.
ProcessFrame(sc) ==
    \E a \in { AnchorStep(sc) } :
    \E objs \in { select_candidates(a.haar_face_position, sc.blobs) } :
    \E reset \in { should_reset_consistency(consistency_reset_counter, objs) } :
    \E hist1 \in { Append150(IF reset THEN << >> ELSE object_history, objs) } :
    \E vote \in { find_most_consistent_object(hist1) } :
    \E t \in { TrackStep(a, objs, reset, hist1, vote) } :
        /\ status' = IF t.raised THEN "raised" ELSE "running"
        /\ frame_shape' = frame_shape
        /\ elapsed' = a.elapsed
        /\ adaptive_interval' = a.adaptive_interval
        /\ haar_face_position' = a.haar_face_position
        /\ haar_last_position' = a.haar_last_position
        /\ average_haar' = a.average_haar
        /\ current_objects' = objs
        /\ consistency_reset_counter' = reset_counter_after(consistency_reset_counter, objs)
        /\ object_history' = hist1
        /\ consistent_face' = t.consistent_face
        /\ last_consistent_face' = t.last_consistent_face
        /\ average_face_size' = t.average_face_size
        /\ previous_haar_center' = t.previous_haar_center
        /\ previous_face_center' = t.previous_face_center
        /\ \E heat \in { update_heatmap(heatmap, heatmap_haar_position, a.haar_face_position, objs) } :
             /\ heatmap' = heat.heatmap
             /\ heatmap_haar_position' = heat.heatmap_haar_position
        /\ is_reconnected' = t.is_reconnected
        /\ padded_face' = t.padded_face
        /\ voted' = vote
        /\ face_source' = t.face_source
        /\ reset_fired' = reset
        /\ haar_invoked' = a.invoke
        /\ candidate_log' = Append(candidate_log, Len(objs))
        /\ frames' = frames + 1
        /\ haar_observations' = IF a.observed THEN haar_observations + 1 ELSE haar_observations
        /\ haar_raw_before' = IF a.observed THEN haar_last_position ELSE haar_raw_before
        /\ integration' = t.integration
        /\ twin' = twin
        /\ heatmap_haar_before' = heatmap_haar_position
        /\ haar_first' = IF haar_first = None /\ a.observed THEN a.haar_last_position ELSE haar_first
        /\ last_reset_frame' = IF reset THEN frames + 1 ELSE last_reset_frame
        /\ \E e \in { EyeStep(t, sc.eyes) } :
             /\ eye_history' = e.eye_history
             /\ consistent_eyes' = e.consistent_eyes
             /\ last_consistent_eyes' = e.last_consistent_eyes
             /\ eyes_tracked' = e.tracked

Frame(script) ==
    /\ status = "running"
    /\ \E e \in NextScene(script) :
         /\ phase' = e.phase
         /\ left' = e.left
         /\ input' = e.input
         /\ ProcessFrame(e.input)

\* cap.read() fails: the loop ends.
EndOfStream(script) ==
    /\ status = "running"
    /\ NextScene(script) = { }
    /\ status' = "stopped"
    /\ UNCHANGED << frame_shape, elapsed, adaptive_interval, haar_face_position, haar_last_position, average_haar,
                    current_objects, object_history, last_consistent_face,
                    consistency_reset_counter, consistent_face, is_reconnected, padded_face,
                    average_face_size, previous_haar_center, previous_face_center,
                    side_vars, obs_vars, env_vars >>

FrameMain == Frame(ScriptMain)
EndMain == EndOfStream(ScriptMain)
Next == FrameMain \/ EndMain
Spec == Init /\ [][Next]_vars

FrameLong == Frame(ScriptLong)
EndLong == EndOfStream(ScriptLong)
NextLong == FrameLong \/ EndLong
SpecLong == Init /\ [][NextLong]_vars

FrameSelect == Frame(ScriptSelect)
EndSelect == EndOfStream(ScriptSelect)
NextSelect == FrameSelect \/ EndSelect
SpecSelect == Init /\ [][NextSelect]_vars

FrameTrack == Frame(ScriptTrack)
EndTrack == EndOfStream(ScriptTrack)
NextTrack == FrameTrack \/ EndTrack
SpecTrack == Init /\ [][NextTrack]_vars

NextResize == Frame(ScriptResize) \/ EndOfStream(ScriptResize)
SpecResize == Init /\ [][NextResize]_vars

NextEyes == Frame(ScriptEyes) \/ EndOfStream(ScriptEyes)
SpecEyes == Init /\ [][NextEyes]_vars

\* The first 10 frames of a stream that does not end: 0.1 s or 0.5 s apart, a
\* blob in view, with an anchor to find or without.
ScriptLive ==
    << Run({ Scene(dt, h, <<BlobR>>) : dt \in {1, 5}, h \in {None, AnchorH1} },
           {min_consistency_frames}) >>

\* The passes after the scenes of ScriptLive, without end: of such a pass only
\* the scheduler and the smoother (lines 764-774) are followed, on a frame that
\* comes 0.1 s, 0.5 s or 1 s after the one before with or without an anchor to
\* find.  By then the anchor has been observed or the loop has ended.  phase
\* tells a frame from the one before it.
Later ==
    /\ status = "running"
    /\ NextScene(ScriptLive) = { }
    /\ \E sc \in { Scene(dt, h, << >>) : dt \in {1, 5, 10}, h \in {None, AnchorH1, AnchorH3} } :
       \E a \in { AnchorStep(sc) } :
         /\ input' = sc
         /\ phase' = IF phase = Len(ScriptLive) THEN phase + 1 ELSE Len(ScriptLive)
         /\ left' = left
         /\ elapsed' = a.elapsed
         /\ adaptive_interval' = a.adaptive_interval
         /\ haar_face_position' = a.haar_face_position
         /\ haar_last_position' = a.haar_last_position
         /\ average_haar' = a.average_haar
         /\ haar_invoked' = a.invoke
         /\ haar_observations' = IF a.observed THEN haar_observations + 1 ELSE haar_observations
         /\ haar_raw_before' = IF a.observed THEN haar_last_position ELSE haar_raw_before
         /\ haar_first' = IF haar_first = None /\ a.observed THEN a.haar_last_position ELSE haar_first
    /\ UNCHANGED << status, frame_shape, current_objects, object_history, last_consistent_face,
                    consistency_reset_counter, consistent_face, is_reconnected, padded_face,
                    average_face_size, previous_haar_center, previous_face_center, side_vars,
                    voted, face_source, reset_fired, candidate_log, frames, integration, twin,
                    heatmap_haar_before, eyes_tracked, last_reset_frame >>

\* cap.read() hands the next frame to a loop that is running.
Arrives ==
    /\ status = "running"
    /\ IF NextScene(ScriptLive) # { }
       THEN \E e \in NextScene(ScriptLive) : phase' = e.phase /\ left' = e.left
       ELSE /\ phase' = IF phase = Len(ScriptLive) THEN phase + 1 ELSE Len(ScriptLive)
            /\ left' = left

\* Frames keep arriving: while the loop runs, the next frame is read and its
\* pass comes to its end.
NextLive == Frame(ScriptLive) \/ Later
SpecLive == Init /\ [][NextLive]_vars /\ WF_<<phase, left>>(Arrives)

NextIdle == Frame(ScriptIdle) \/ EndOfStream(ScriptIdle)
SpecIdle == Init /\ [][NextIdle]_vars

NextReset == Frame(ScriptReset) \/ EndOfStream(ScriptReset)
SpecReset == Init /\ [][NextReset]_vars

NextHeat == Frame(ScriptHeat) \/ EndOfStream(ScriptHeat)
SpecHeat == Init /\ [][NextHeat]_vars

FrameAnchor == Frame(ScriptAnchor)
EndAnchor == EndOfStream(ScriptAnchor)
NextAnchor == FrameAnchor \/ EndAnchor
SpecAnchor == Init /\ [][NextAnchor]_vars

\* ------------------------------------------------------------------ add_face_padding alone
\* The function on its own: a face rectangle and a frame size drawn from all
\* small ones, around the padding of 20, and one step that pads the face.
PadMax == 44

InitPad ==
    /\ status = "running"
    /\ frame_shape \in { <<fh, fw>> : fh \in {PadMax - 7, PadMax}, fw \in {PadMax - 4, PadMax} }
    /\ consistent_face \in { <<x, y, w, h>> : x \in 0..PadMax, y \in {0, FacePadding, PadMax},
                                              w \in 1..PadMax, h \in {1, PadMax} }
    /\ padded_face = None
    /\ elapsed = 10
    /\ adaptive_interval = 0
    /\ haar_face_position = None
    /\ haar_last_position = None
    /\ average_haar = None
    /\ current_objects = << >>
    /\ object_history = << >>
    /\ last_consistent_face = None
    /\ consistency_reset_counter = 0
    /\ is_reconnected = FALSE
    /\ average_face_size = None
    /\ previous_haar_center = None
    /\ previous_face_center = None
    /\ heatmap = None
    /\ heatmap_haar_position = None
    /\ eye_history = << >>
    /\ consistent_eyes = << >>
    /\ last_consistent_eyes = None
    /\ voted = None
    /\ face_source = "none"
    /\ reset_fired = FALSE
    /\ haar_invoked = FALSE
    /\ candidate_log = << >>
    /\ frames = 0
    /\ haar_observations = 0
    /\ haar_raw_before = None
    /\ integration = NoIntegration
    /\ twin = NoTwin
    /\ heatmap_haar_before = None
    /\ eyes_tracked = FALSE
    /\ haar_first = None
    /\ last_reset_frame = 0
    /\ phase = 0
    /\ left = 0
    /\ input = Scene(1, None, << >>)

\* padded_face = add_face_padding(consistent_face, frame.shape, padding=20)
PadFace ==
    /\ status = "running"
    /\ padded_face = None
    /\ padded_face' = add_face_padding(consistent_face, frame_shape[2], frame_shape[1], FacePadding)
    /\ UNCHANGED << status, frame_shape, elapsed, adaptive_interval, haar_face_position, haar_last_position,
                    average_haar, current_objects, object_history, last_consistent_face,
                    consistency_reset_counter, consistent_face, is_reconnected,
                    average_face_size, previous_haar_center, previous_face_center,
                    side_vars, obs_vars, env_vars >>

NextPad == PadFace
SpecPad == InitPad /\ [][NextPad]_vars

\* ------------------------------------------------------------------ the integrator alone, twice
\* update_consistent_face_position on its own: a tracked face, one candidate
\* that is also the vote, and the globals the function reads, drawn from the
\* values the loop can leave in them; a second set of those globals, other
\* than average_face_size, is kept in twin, and one step calls the function on
\* each.  The stored centres exist exactly when a call has returned before,
\* and then the averages and average_face_size exist as well.
AlignmentGlobals ==
    LET averages == { <<RInt(150), RInt(50), RInt(250), RInt(200)>>,
                      <<RInt(130), Rat(81, 2), RInt(250), RInt(200)>>,
                      <<RInt(70), RInt(50), Rat(501, 2), RInt(200)>> }
        before == { [average_haar |-> None, previous_haar_center |-> None,
                     previous_face_center |-> None] }
                  \cup { [average_haar |-> a, previous_haar_center |-> None,
                           previous_face_center |-> None] : a \in averages }
        after == { [average_haar |-> a, previous_haar_center |-> haar_avg_center(b),
                    previous_face_center |-> c] :
                     a \in averages, b \in averages, c \in { <<195, 125>>, <<200, 140>> } }
    IN  [first |-> before, later |-> after]

InitTwin ==
    /\ status = "running"
    /\ frame_shape = <<FrameH, FrameW>>
    /\ consistent_face \in { BlobA, BlobP }
    /\ \E target \in { BlobA, BlobA40, BlobA100, BlobP, BlobQ } :
         /\ current_objects = <<target>>
         /\ voted = target
    /\ \E first \in BOOLEAN :
         /\ average_face_size \in IF first THEN { None }
                                   ELSE { RInt(16000), RInt(39600), Rat(352001, 10) }
         /\ \E g \in (IF first THEN AlignmentGlobals.first ELSE AlignmentGlobals.later) :
              /\ average_haar = g.average_haar
              /\ previous_haar_center = g.previous_haar_center
              /\ previous_face_center = g.previous_face_center
         /\ \E g \in (IF first THEN AlignmentGlobals.first ELSE AlignmentGlobals.later) :
              twin = [NoTwin EXCEPT !.average_haar = g.average_haar,
                                    !.previous_haar_center = g.previous_haar_center,
                                    !.previous_face_center = g.previous_face_center]
    /\ padded_face = None
    /\ heatmap = None
    /\ heatmap_haar_position = None
    /\ eye_history = << >>
    /\ consistent_eyes = << >>
    /\ last_consistent_eyes = None
    /\ elapsed = 0
    /\ adaptive_interval = 0
    /\ haar_face_position = None
    /\ haar_last_position = None
    /\ object_history = << >>
    /\ last_consistent_face = None
    /\ consistency_reset_counter = 0
    /\ is_reconnected = FALSE
    /\ face_source = "vote"
    /\ reset_fired = FALSE
    /\ haar_invoked = FALSE
    /\ candidate_log = << >>
    /\ frames = 0
    /\ haar_observations = 0
    /\ haar_raw_before = None
    /\ integration = NoIntegration
    /\ heatmap_haar_before = None
    /\ eyes_tracked = FALSE
    /\ haar_first = None
    /\ last_reset_frame = 0
    /\ phase = 0
    /\ left = 0
    /\ input = Scene(1, None, << >>)

\* consistent_face = update_consistent_face_position(consistent_face,
\* current_objects, most_consistent_object), and the same call on the globals
\* of twin.
Integrate ==
    /\ status = "running"
    /\ frames = 0
    /\ \E r \in { update_consistent_face_position(consistent_face, current_objects, voted, average_haar,
                                                   average_face_size, previous_haar_center,
                                                   previous_face_center) } :
       \E r2 \in { update_consistent_face_position(consistent_face, current_objects, voted,
                                                    twin.average_haar, average_face_size,
                                                    twin.previous_haar_center,
                                                    twin.previous_face_center) } :
         /\ status' = IF r.raised THEN "raised" ELSE "running"
         /\ consistent_face' = r.face
         /\ average_face_size' = r.average_face_size
         /\ previous_haar_center' = r.previous_haar_center
         /\ previous_face_center' = r.previous_face_center
         /\ integration' = r.integration
         /\ twin' = [twin EXCEPT !.previous_haar_center = r2.previous_haar_center,
                                 !.previous_face_center = r2.previous_face_center,
                                 !.average_face_size = r2.average_face_size,
                                 !.integration = r2.integration]
    /\ frames' = 1
    /\ UNCHANGED << frame_shape, elapsed, adaptive_interval, haar_face_position, haar_last_position,
                    average_haar, current_objects, object_history, last_consistent_face,
                    consistency_reset_counter, is_reconnected, padded_face,
                    voted, face_source, reset_fired, haar_invoked, candidate_log, haar_observations,
                    haar_raw_before, heatmap_haar_before, eyes_tracked, haar_first, last_reset_frame,
                    side_vars, env_vars >>

NextTwin == Integrate
SpecTwin == InitTwin /\ [][NextTwin]_vars

\* ------------------------------------------------------------------ the smoother alone, many times
\* update_haar_averages on its own, called with a first rectangle and then with
\* one and the same rectangle again and again.  After k updates an average is
\* a number of k decimal places whose digits no longer fit the integers of TLC:
\* here average_haar holds each average as [num, places], the average being
\* num / 10^places and num a natural number given by its decimal digits, units
\* first (<< >> is 0).
MaxEmaObservations == 21

\* The digits of a number given as cells of any size, units first.
RECURSIVE Carry(_, _)
Carry(cells, c) ==
    IF cells = << >> THEN (IF c = 0 THEN << >> ELSE Carry(<<c>>, 0))
    ELSE <<(Head(cells) + c) % 10>> \o Carry(Tail(cells), (Head(cells) + c) \div 10)

\* m * a + n * b * 10^k on digits.
DecLinear(m, a, n, b, k) ==
    Carry([i \in 1..Max(Len(a), Len(b) + k) |->
              m * (IF i <= Len(a) THEN a[i] ELSE 0)
              + n * (IF i > k /\ i <= Len(b) + k THEN b[i - k] ELSE 0)], 0)

\* An average that keeps eight tenths of itself.
EmaHaarExact_slow(new, avg) ==
    [num |-> DecLinear(8, avg.num, 2, Carry(<<new>>, 0), avg.places), places |-> avg.places + 1]

\* haar_avg_alpha * new + (1 - haar_avg_alpha) * avg, with haar_avg_alpha = 0.3:
\* (3 * new * 10^places + 7 * num) / 10^(places + 1).
EmaHaarExact(new, avg) ==
    [num |-> DecLinear(7, avg.num, 3, Carry(<<new>>, 0), avg.places), places |-> avg.places + 1]

\* int(average): the digits before the decimal point, as an integer.
DecTrunc(avg) ==
    LET whole == SubSeq(avg.num, avg.places + 1, Len(avg.num))
        value[i \in 0..Len(whole)] ==
            IF i = Len(whole) THEN 0 ELSE whole[i + 1] + 10 * value[i + 1]
    IN  value[0]

InitEma ==
    /\ status = "running"
    /\ frame_shape = <<FrameH, FrameW>>
    /\ input \in { Scene(1, r, << >>) :
                      r \in { <<150, 90, 250, 200>>, <<334, 50, 60, 60>>, <<20, 20, 100, 100>> } }
    /\ average_haar = None
    /\ haar_face_position = None
    /\ haar_last_position = None
    /\ heatmap = None
    /\ heatmap_haar_position = None
    /\ eye_history = << >>
    /\ consistent_eyes = << >>
    /\ last_consistent_eyes = None
    /\ consistent_face = None
    /\ padded_face = None
    /\ elapsed = 10
    /\ adaptive_interval = 0
    /\ current_objects = << >>
    /\ object_history = << >>
    /\ last_consistent_face = None
    /\ consistency_reset_counter = 0
    /\ is_reconnected = FALSE
    /\ average_face_size = None
    /\ previous_haar_center = None
    /\ previous_face_center = None
    /\ voted = None
    /\ face_source = "none"
    /\ reset_fired = FALSE
    /\ haar_invoked = FALSE
    /\ candidate_log = << >>
    /\ frames = 0
    /\ haar_observations = 0
    /\ haar_raw_before = None
    /\ integration = NoIntegration
    /\ twin = NoTwin
    /\ heatmap_haar_before = None
    /\ eyes_tracked = FALSE
    /\ haar_first = None
    /\ last_reset_frame = 0
    /\ phase = 0
    /\ left = 0

\* haar_face_position = update_haar_averages(haar_face): the first time with
\* some rectangle, afterwards with the rectangle of the scene.
ObserveAnchor ==
    /\ status = "running"
    /\ haar_observations < MaxEmaObservations
    /\ \E haar_face \in IF average_haar = None
                         THEN { <<150, 50, 250, 200>>, <<0, 50, 60, 60>> }
                         ELSE { input.haar } :
         /\ average_haar' =
                IF average_haar = None
                THEN [i \in 1..4 |-> [num |-> Carry(<<haar_face[i]>>, 0), places |-> 0]]
                ELSE [i \in 1..4 |-> EmaHaarExact(haar_face[i], average_haar[i])]
         /\ haar_last_position' = haar_face
         /\ haar_raw_before' = haar_last_position
         /\ haar_first' = IF haar_first = None THEN haar_face ELSE haar_first
    /\ haar_face_position' = [i \in 1..4 |-> DecTrunc(average_haar'[i])]
    /\ haar_observations' = haar_observations + 1
    /\ UNCHANGED << status, frame_shape, elapsed, adaptive_interval, current_objects, object_history,
                    last_consistent_face, consistency_reset_counter, consistent_face, is_reconnected,
                    padded_face, average_face_size, previous_haar_center, previous_face_center,
                    voted, face_source, reset_fired, haar_invoked, candidate_log, frames,
                    integration, twin, heatmap_haar_before, eyes_tracked, last_reset_frame,
                    side_vars, env_vars >>

SpecEma == InitEma /\ [][ObserveAnchor]_vars

\* ------------------------------------------------------------------ properties
\* The number of frames, up to and including the last one, with no candidate.
EmptyRun ==
    LET n == Len(candidate_log)
        runs == { k \in 0..n : \A i \in (n - k + 1)..n : candidate_log[i] = 0 }
    IN  CHOOSE k \in runs : \A j \in runs : j <= k

\* The history is k >= 1 frames that each hold the same single rectangle.
UniformHistory ==
    /\ Len(object_history) >= 1
    /\ Len(object_history[1]) = 1
    /\ \A i \in 1..Len(object_history) : object_history[i] = object_history[1]

\* C1 -- vote threshold: when the history, started empty, is k frames that each
\* contributed the same single rectangle, the vote of the frame is none for every
\* k < min_consistency_frames and is that rectangle at k = min_consistency_frames.
C1_VoteThreshold ==
    UniformHistory =>
        /\ Len(object_history) < min_consistency_frames => voted = None
        /\ Len(object_history) = min_consistency_frames => voted = object_history[1][1]

C1_Witness ==
    /\ UniformHistory
    /\ frames = min_consistency_frames
    /\ Len(object_history) = min_consistency_frames
    /\ voted = object_history[1][1]

\* C2 -- reset: the frame that is the 40th in a row with no candidate leaves the
\* history cleared (holding only its own empty candidate set) and no last known
\* face; a frame that is at most the 39th in a row clears neither: the history
\* grows by the frame (up to its capacity) and a last known face stays present.
C2_Reset ==
    [][ frames' = frames + 1 =>
          /\ EmptyRun' = max_reset_frames =>
                 object_history' = << << >> >> /\ last_consistent_face' = None
          /\ EmptyRun' < max_reset_frames =>
                 /\ Len(object_history') = Min(Len(object_history) + 1, HistoryMaxLen)
                 /\ last_consistent_face # None => last_consistent_face' # None ]_vars

C2_Witness ==
    /\ EmptyRun = max_reset_frames
    /\ frames = min_consistency_frames + max_reset_frames
    /\ candidate_log[min_consistency_frames] = 1
    /\ object_history = << << >> >>
    /\ last_consistent_face = None

\* C3 -- reconnection bound: on a frame with no vote, a last known face and
\* candidates, the face output is the candidate nearest to the last known face
\* if that distance is strictly below 150 px, and there is no face output
\* otherwise.
C3_ReconnectionBound ==
    [][ ( /\ frames' = frames + 1
          /\ voted' = None
          /\ last_consistent_face # None
          /\ current_objects' # << >> ) =>
        LET objs == { current_objects'[i] : i \in 1..Len(current_objects') }
            d2(c) == Dist2(last_consistent_face, c)
        IN  IF \E c \in objs : d2(c) < ReconnectThreshold * ReconnectThreshold
            THEN /\ consistent_face' \in objs
                 /\ \A c \in objs : d2(consistent_face') <= d2(c)
            ELSE consistent_face' = None ]_vars

C3_Witness ==
    /\ voted = None
    /\ face_source = "reconnect"
    /\ consistent_face = current_objects[1]
    /\ Dist2(last_consistent_face, consistent_face)
           = (ReconnectThreshold - 1) * (ReconnectThreshold - 1)

\* C4 -- no error is fatal except the failure to acquire a frame: no pass of the
\* frame loop ends in an exception.
C4_NoFatalError == status # "raised"

\* C5 -- reconnected flag: a frame whose face output comes from the reconnect
\* branch is marked reconnected, and a frame whose output comes from the vote is
\* not.
C5_ReconnectedFlag ==
    /\ face_source = "reconnect" => is_reconnected
    /\ (face_source = "vote" /\ status = "running") => ~is_reconnected

\* C6 -- cleared together: in a frame in which the reset clears the history and
\* the last known face, the reset counter is back at 0.
C6_ClearedTogether == reset_fired => consistency_reset_counter = 0

\* C7 -- after every frame, consistency_reset_counter is the number of frames in
\* a row, up to and including that frame, with an empty candidate set; so it is
\* 0 after a frame with a candidate.
C7_CounterIsEmptyRun == consistency_reset_counter = EmptyRun

C7_Witness ==
    /\ frames > max_reset_frames + 1
    /\ candidate_log[frames - 1] = 0
    /\ candidate_log[frames] = 1
    /\ consistency_reset_counter = 0

\* C8 -- the face output of a frame and the last known face lie inside the
\* frame (the candidates of the selector all do).
C8_FaceInsideFrame ==
    /\ consistent_face # None => InsideFrame(consistent_face)
    /\ last_consistent_face # None => InsideFrame(last_consistent_face)

\* C9 -- clipping: the padded rectangle has a non-negative corner and ends
\* within the frame's width and height, whatever the face rectangle and the
\* frame size.
C9_PaddingClipped ==
    padded_face # None =>
        /\ padded_face[1] >= 0
        /\ padded_face[2] >= 0
        /\ padded_face[1] + padded_face[3] <= frame_shape[2]
        /\ padded_face[2] + padded_face[4] <= frame_shape[1]

C9_Witness ==
    /\ padded_face # None
    /\ 0 < consistent_face[1] /\ consistent_face[1] < FacePadding
    /\ consistent_face[1] + consistent_face[3] + FacePadding > frame_shape[2]
    /\ consistent_face[1] + consistent_face[3] <= frame_shape[2]
    /\ padded_face[1] = 0
    /\ padded_face[3] = frame_shape[2]

\* C10 -- majority vote: with at least 10 frames in the history and a quantized
\* key counted at least 10 times over the whole history, the vote is the most
\* recent raw rectangle of the history whose key has the highest count; in every
\* other case the vote is none.  A vote is a rectangle of a candidate set in the
\* history.
C10_MajorityVote ==
    LET H == object_history
        occ == Occurrences(H)
        key(o) == PosKey(H[o[1]][o[2]])
        count(k) == Cardinality({ o \in occ : key(o) = k })
        \* p is met before o when the history is scanned from its newest frame
        before(p, o) == p[1] > o[1] \/ (p[1] = o[1] /\ p[2] < o[2])
    IN  IF /\ Len(H) >= min_consistency_frames
           /\ \E o \in occ : count(key(o)) >= min_consistency_frames
        THEN \E o \in occ :
               /\ voted = H[o[1]][o[2]]
               /\ count(key(o)) >= min_consistency_frames
               /\ \A p \in occ : count(key(p)) <= count(key(o))
               /\ \A p \in occ : key(p) = key(o) => ~before(p, o)
        ELSE voted = None

C10_Witness ==
    /\ voted # None
    /\ object_history[Len(object_history)] = << voted >>
    /\ \E i \in 1..Len(object_history) :
          /\ object_history[i] # << >>
          /\ PosKey(object_history[i][1]) = PosKey(voted)
          /\ object_history[i][1] # voted

\* Some quantized key is counted at least min_consistency_frames times in H.
ConsistentKeyIn(H) ==
    LET occ == Occurrences(H)
        key(o) == PosKey(H[o[1]][o[2]])
    IN  \E o \in occ : Cardinality({ p \in occ : key(p) = key(o) }) >= min_consistency_frames

\* C11 (as stated) -- on a frame whose candidate set is empty the vote is none
\* and the reset counter advances by one.
C11_EmptyFrameNoVote ==
    [][ (frames' = frames + 1 /\ current_objects' = << >>) =>
          /\ voted' = None
          /\ consistency_reset_counter' = consistency_reset_counter + 1 ]_vars

\* C11 (amended) -- on a frame whose candidate set is empty the reset counter
\* advances by one, and the vote is none unless some quantized key is still
\* counted at least min_consistency_frames times in the history, in which case
\* the vote is a rectangle of an earlier frame of the history.
C11_EmptyFrameVote ==
    [][ (frames' = frames + 1 /\ current_objects' = << >>) =>
          /\ consistency_reset_counter' = consistency_reset_counter + 1
          /\ voted' = None <=> ~ConsistentKeyIn(object_history')
          /\ voted' # None =>
                \E i \in 1..(Len(object_history') - 1) :
                    \E j \in 1..Len(object_history'[i]) : voted' = object_history'[i][j] ]_vars

C11_Witness ==
    /\ frames > min_consistency_frames
    /\ current_objects = << >>
    /\ consistency_reset_counter = 1
    /\ voted # None

\* C12 -- detection absence in the integrator: on a frame whose candidate set is
\* empty and on which the reset does not fire, the last known face after the
\* frame is the last known face before it.
C12_EmptyFrameHoldsFace ==
    [][ (frames' = frames + 1 /\ current_objects' = << >> /\ ~reset_fired') =>
          last_consistent_face' = last_consistent_face ]_vars

\* C13 -- lifecycle of the last known face: it appears only on a frame with a
\* vote; on every frame with a vote or a reconnected candidate it becomes the
\* face output of the frame; on a frame with neither it keeps its value unless
\* the reset clears it.
C13_LastKnownLifecycle ==
    [][ frames' = frames + 1 =>
          /\ (last_consistent_face = None /\ last_consistent_face' # None) => voted' # None
          /\ face_source' \in {"vote", "reconnect"} => last_consistent_face' = consistent_face'
          /\ face_source' = "none" =>
                last_consistent_face' = IF reset_fired' THEN None ELSE last_consistent_face ]_vars

\* C14 -- on a frame with a vote and candidates the integrator interpolates from
\* the previous frame's face output towards the frame's target: each coordinate
\* of the new face is trunc(alpha * old + (1 - alpha) * target), with old taken
\* from the face output of the previous frame, pos_alpha for x and y and
\* size_alpha for w and h.
C14_IntegratesTrackedFace ==
    [][ (frames' = frames + 1 /\ integration'.ran /\ consistent_face # None) =>
          LET g == integration'
              old == consistent_face
          IN  consistent_face' = << MixTrunc(g.pos_alpha, old[1], g.target[1]),
                                    MixTrunc(g.pos_alpha, old[2], g.target[2]),
                                    MixTrunc(g.size_alpha, old[3], g.target[3]),
                                    MixTrunc(g.size_alpha, old[4], g.target[4]) >> ]_vars

\* C15 -- scheduler gate: the anchor detector is invoked on a frame only if the
\* time since its last invocation is at least the interval selected for that
\* frame.
C15_InvokedOnlyWhenDue ==
    [][ (frames' = frames + 1 /\ haar_invoked') =>
          Min(elapsed + input'.dt, 10) >= adaptive_interval' ]_vars

C15_Witness ==
    /\ frames > 1
    /\ haar_invoked
    /\ haar_face_position # None
    /\ adaptive_interval = 10
    /\ input.dt < adaptive_interval

\* The table of the adaptive interval, in ticks, over the squares of the two
\* distances (rationals).
IntervalTable(position_change2, distance_from_avg2) ==
    LET t == haar_position_change_threshold
        pc_over(k) == RLess(RInt(k * k), position_change2)
        avg_over(k) == RLess(RInt(k * k), distance_from_avg2)
    IN  IF pc_over(t) \/ avg_over(30) THEN 1
        ELSE IF pc_over(t \div 2) \/ avg_over(15) THEN 2
        ELSE IF pc_over(t \div 5) \/ avg_over(8) THEN 4
        ELSE 10

\* The intervals the table allows before a frame, the current raw anchor being
\* the latest raw observation: position_change is its distance to the raw
\* observation before it (or 0, the last raw position being that same
\* observation), distance_from_avg its distance to the smoothed anchor (as
\* exposed, or the averages themselves); 0.5 s with no anchor or no prior raw
\* observation.
ClaimedIntervals ==
    LET raw == haar_last_position
        c == haar_avg_center(average_haar)
        from_exposed == RInt(Dist2(raw, haar_face_position))
        from_averages == RAdd(RSquare(RSub(RInt(CenterX(raw)), c[1])),
                              RSquare(RSub(RInt(CenterY(raw)), c[2])))
        changes == {RInt(0)} \cup (IF haar_raw_before = None THEN { }
                                    ELSE {RInt(Dist2(raw, haar_raw_before))})
    IN  IF raw = None THEN {haar_detection_interval}
        ELSE { IntervalTable(pc, d) : pc \in changes, d \in {from_exposed, from_averages} }
             \cup (IF haar_raw_before = None THEN {haar_detection_interval} ELSE { })

\* C16 -- adaptive interval table: the interval selected for a frame is 0.1 s
\* if position_change > 20 or distance_from_avg > 30, else 0.2 s if
\* position_change > 10 or distance_from_avg > 15, else 0.4 s if
\* position_change > 4 or distance_from_avg > 8, else 1.0 s, both distances
\* measured from the current raw anchor; and 0.5 s with no anchor or no prior
\* raw position.
C16_IntervalTable ==
    [][ frames' = frames + 1 => adaptive_interval' \in ClaimedIntervals ]_vars

\* C17 -- anchor absence: on a frame on which the anchor detector is invoked
\* and finds nothing, or is not invoked, the averages, the last raw position
\* and the exposed smoothed anchor are what they were before the frame.
C17_AbsenceKeepsAnchor ==
    [][ (frames' = frames + 1 /\ haar_observations' = haar_observations) =>
          /\ average_haar' = average_haar
          /\ haar_last_position' = haar_last_position
          /\ haar_face_position' = haar_face_position ]_vars

C17_Witness ==
    /\ haar_invoked
    /\ input.haar = None
    /\ haar_raw_before # None
    /\ haar_last_position # haar_raw_before
    /\ haar_face_position # None
    /\ haar_face_position # haar_last_position

\* C18 -- default window: after a frame on which no anchor is available the
\* candidate set is exactly the one rectangle [100, 50, 200, 200], the 200x200
\* window centred in the 400x300 frame; so it is never empty while the anchor
\* is absent.
C18_DefaultWindowWithoutAnchor ==
    (frames >= 1 /\ haar_face_position = None) =>
        current_objects = << <<100, 50, 200, 200>> >>

C18_Witness ==
    /\ frames >= 2
    /\ haar_invoked
    /\ haar_face_position = None
    /\ input.blobs # << >>
    /\ current_objects = << <<100, 50, 200, 200>> >>
    /\ current_objects # input.blobs

\* The blobs of the frame's scene that lie in the search window of the anchor.
InSearchWindow ==
    LET win == SearchWindow(haar_face_position)
    IN  { b \in { input.blobs[i] : i \in 1..Len(input.blobs) } :
            /\ b[1] >= win[1] /\ b[2] >= win[2]
            /\ b[1] + b[3] <= win[1] + win[3] /\ b[2] + b[4] <= win[2] + win[4] }

\* The candidate set is the one rectangle of survivors that minimises the
\* score, or empty when survivors is empty.
BestOf(survivors) ==
    IF survivors = { } THEN current_objects = << >>
    ELSE /\ Len(current_objects) = 1
         /\ current_objects[1] \in survivors
         /\ \A o \in survivors : ~ScoreLess(o, current_objects[1], haar_face_position)

\* C19 (as stated) -- selection with an anchor: the survivors are the
\* rectangles in the search window with area within [0.3, 3.0] times the
\* anchor's area and aspect ratio within [0.5, 2.0], bounds included; the
\* candidate set is the survivor of lowest score, or empty; never more than one.
C19_SelectionClosedBounds ==
    (frames >= 1 /\ haar_face_position # None) =>
        LET hs == Area(haar_face_position)
        IN  BestOf({ b \in InSearchWindow :
                       /\ 3 * hs <= 10 * Area(b) /\ Area(b) <= 3 * hs
                       /\ b[4] <= 2 * b[3] /\ b[3] <= 2 * b[4] })

\* C19 (amended) -- the same with the bounds excluded: area strictly between
\* 0.3 and 3.0 times the anchor's area, aspect ratio strictly between 0.5 and
\* 2.0.
C19_SelectionOpenBounds ==
    (frames >= 1 /\ haar_face_position # None) =>
        LET hs == Area(haar_face_position)
        IN  BestOf({ b \in InSearchWindow :
                       /\ 3 * hs < 10 * Area(b) /\ Area(b) < 3 * hs
                       /\ b[4] < 2 * b[3] /\ b[3] < 2 * b[4] })

C19_Witness ==
    /\ haar_face_position # None
    /\ Len(input.blobs) = 3
    /\ Cardinality(InSearchWindow) = 3
    /\ current_objects = << input.blobs[2] >>
    /\ 10 * Area(input.blobs[1]) = 3 * Area(haar_face_position)
    /\ input.blobs[3][3] = 2 * input.blobs[3][4]

\* The speed the table gives for the integration of the frame, in per mille:
\* by the angle between the two motion vectors when coordinated (0 degrees when
\* a vector is zero or no previous centres are stored), by the distance
\* otherwise.
TablePosAlpha ==
    LET g == integration
        no_angle == \/ ~g.have_prev
                    \/ g.h[1][1] = 0 /\ g.h[2][1] = 0
                    \/ g.f = <<0, 0>>
        below(deg) == no_angle \/ AngleBelow(g.h, g.f, deg)
        d2 == g.distance2
    IN  IF g.coordinated
        THEN CASE below(5) -> 1
               [] ~below(5) /\ below(10) -> 5
               [] ~below(10) /\ below(15) -> 10
               [] ~below(15) /\ below(25) -> 20
               [] ~below(25) /\ below(40) -> 50
               [] OTHER -> 100
        ELSE CASE d2 < 100 -> 20
               [] d2 >= 100 /\ d2 < 625 -> 100
               [] d2 >= 625 /\ d2 < 2500 -> 250
               [] d2 >= 2500 /\ d2 < 6400 -> 500
               [] d2 >= 6400 /\ d2 < 14400 -> 800
               [] OTHER -> 950

\* C20 (as stated) -- position speed: pos_alpha is the table's value; and at
\* 0.001 the new position is within 0.1% of the target after the step: what is
\* left to the target, in x and in y, is at most a thousandth of the distance
\* there was (or of the target coordinate itself).
C20_PositionSpeedExact ==
    integration.ran =>
        /\ integration.pos_alpha = TablePosAlpha
        /\ (integration.coordinated /\ integration.pos_alpha = 1) =>
              \A i \in {1, 2} :
                  1000 * Abs(consistent_face[i] - integration.target[i])
                      <= Max(Abs(integration.old[i] - integration.target[i]), integration.target[i])

\* C20 (amended) -- position speed: pos_alpha is the table's value; and at
\* 0.001 what is left to the target after the step, in x and in y, is less
\* than a thousandth of the distance there was plus the one pixel of the
\* truncation to an integer.
C20_PositionSpeed ==
    integration.ran =>
        /\ integration.pos_alpha = TablePosAlpha
        /\ (integration.coordinated /\ integration.pos_alpha = 1) =>
              \A i \in {1, 2} :
                  1000 * Abs(consistent_face[i] - integration.target[i])
                      < Abs(integration.old[i] - integration.target[i]) + 1000

C20_Witness ==
    /\ integration.ran
    /\ integration.coordinated
    /\ integration.have_prev
    /\ integration.pos_alpha = 1
    /\ integration.old[1] # integration.target[1]
    /\ consistent_face[1] # integration.target[1]
    /\ consistent_face[1] # integration.old[1]

\* The size speed the rules give for the integration of the frame, in per
\* mille; both ratios are against average_face_size as the frame leaves it.
TableSizeAlpha ==
    LET g == integration
        avg == average_face_size
        size == Area(g.old)
        target_size == Area(g.target)
        \* size / avg < n / d, and size / avg > n / d
        ratio_below(x, n, d) == x * avg[2] * d < n * avg[1]
        ratio_above(x, n, d) == x * avg[2] * d > n * avg[1]
        d2 == g.distance2
    IN  CASE ratio_below(size, 4, 5) -> 950
          [] ~ratio_below(size, 4, 5) /\ ratio_below(size, 9, 10) -> 900
          [] ~ratio_below(size, 9, 10) /\ ratio_above(target_size, 6, 5) /\ d2 > 2500 -> 980
          [] ~ratio_below(size, 9, 10) /\ ~(ratio_above(target_size, 6, 5) /\ d2 > 2500)
               /\ ratio_above(size, 13, 10) -> 800
          [] OTHER -> IF d2 < 400 THEN 700
                      ELSE IF d2 < 2500 THEN 800
                      ELSE IF d2 < 10000 THEN 900
                      ELSE 950

\* C21 -- size speed: size_alpha is given by the first matching rule of:
\* size_ratio < 0.8 -> 0.95; size_ratio < 0.9 -> 0.9; target_size_ratio > 1.2
\* and distance > 50 -> 0.98; size_ratio > 1.3 -> 0.8; otherwise by distance
\* (< 20 -> 0.7, < 50 -> 0.8, < 100 -> 0.9, else 0.95); the ratios are against
\* average_face_size after its update, 0.1 * current area + 0.9 * average, or
\* the current area the first time.
C21_SizeSpeed ==
    [][ (frames' = frames + 1 /\ integration'.ran) =>
          /\ integration'.size_alpha = TableSizeAlpha'
          /\ average_face_size' =
                IF average_face_size = None THEN RInt(Area(integration'.old))
                ELSE Rat(Area(integration'.old) * average_face_size[2] + 9 * average_face_size[1],
                         10 * average_face_size[2]) ]_vars

C21_Witness ==
    /\ integration.ran
    /\ integration.size_alpha = 980
    /\ 13 * average_face_size[1] < 10 * Area(integration.old) * average_face_size[2]

\* C22 -- size integration is independent of position alignment: two calls of
\* the integrator on the same tracked rectangle, target and average_face_size,
\* whatever the averages of the anchor and the stored previous centres (and so
\* whatever the coordinated flag and the movement angle), compute the same
\* size_alpha, the same new width and height and the same new
\* average_face_size.
C22_SizeIgnoresAlignment ==
    (integration.ran /\ twin.integration.ran) =>
        /\ integration.size_alpha = twin.integration.size_alpha
        /\ integration.updated[3] = twin.integration.updated[3]
        /\ integration.updated[4] = twin.integration.updated[4]
        /\ average_face_size = twin.average_face_size

C22_Witness ==
    /\ integration.ran
    /\ twin.integration.ran
    /\ integration.coordinated
    /\ ~twin.integration.coordinated
    /\ integration.h # twin.integration.h
    /\ integration.pos_alpha # twin.integration.pos_alpha
    /\ integration.updated[3] # integration.old[3]
    /\ integration.updated[3] # integration.target[3]

\* The heat terms multiplied by 0.1 and by 0.98 so many more times.
Cooled(terms, by_tenth, by_098) ==
    [i \in 1..Len(terms) |->
        [d2 |-> terms[i].d2, m2 |-> terms[i].m2,
         outs |-> terms[i].outs + by_tenth, ins |-> terms[i].ins + by_098]]

\* The cell is in the anchor expanded by 5 px, clipped: the rectangle starts
\* 5 px before the anchor, or at 0, and is 10 px wider and higher than the
\* anchor, or ends at the border of the frame.
InPaddedAnchor(cell, haar) ==
    LET x0 == IF haar[1] < 5 THEN 0 ELSE haar[1] - 5
        y0 == IF haar[2] < 5 THEN 0 ELSE haar[2] - 5
        x1 == IF x0 + haar[3] + 10 > FrameW THEN FrameW ELSE x0 + haar[3] + 10
        y1 == IF y0 + haar[4] + 10 > FrameH THEN FrameH ELSE y0 + haar[4] + 10
    IN  x0 <= cell[2] /\ cell[2] < x1 /\ y0 <= cell[1] /\ cell[1] < y1

\* The candidates of the frame leave the cell without new heat: the cell has
\* as many terms as it had.
NoHeatAdded(cell) == Len(heatmap'[cell]) = Len(heatmap[cell])

\* The centres of the two anchors are more than 100 px apart.
MovedFar(old, haar) ==
    (CenterX(haar) - CenterX(old)) * (CenterX(haar) - CenterX(old))
      + (CenterY(haar) - CenterY(old)) * (CenterY(haar) - CenterY(old)) > 10000

\* C23 -- heatmap decay: on a frame with an anchor and no heatmap reset, a
\* cell outside the padded anchor mask (the anchor expanded by 5 px, clipped)
\* with value v becomes exactly 0.1 * v and a cell inside the mask becomes
\* 0.98 * v, when no heat is added to that cell.
C23_HeatmapDecay ==
    [][ ( /\ frames' = frames + 1
          /\ haar_face_position' # None
          /\ heatmap # None
          /\ ~MovedFar(heatmap_haar_position, haar_face_position') ) =>
        \A c \in HeatProbes :
            NoHeatAdded(c) =>
                heatmap'[c] = IF InPaddedAnchor(c, haar_face_position')
                              THEN Cooled(heatmap[c], 0, 1)
                              ELSE Cooled(heatmap[c], 1, 0) ]_vars

\* A cell with heat was outside the mask on a later frame and another inside,
\* and a cell at the last column of the padded anchor, outside the box of the
\* face, was inside.
C23_Witness ==
    /\ heatmap # None
    /\ \E c \in HeatProbes : \E i \in 1..Len(heatmap[c]) : heatmap[c][i].outs = 1
    /\ \E c \in HeatProbes : \E i \in 1..Len(heatmap[c]) : heatmap[c][i].ins = 1
    /\ \E c \in HeatProbes : \E i \in 1..Len(heatmap[c]) :
          heatmap[c][i].outs = 1 /\ heatmap[c][i].ins = 1

\* C24 -- heatmap reset: on a frame with an anchor, if a heatmap reference
\* anchor exists and its centre is strictly more than 100 px from the centre
\* of the current anchor, the entire grid is discarded (what it holds after
\* the frame is the heat of that frame only); at 100 px or less the grid is
\* kept and only decayed; after every such frame the reference anchor equals
\* the current anchor.
C24_HeatmapReset ==
    [][ (frames' = frames + 1 /\ haar_face_position' # None) =>
        /\ heatmap_haar_position' = haar_face_position'
        /\ heatmap' # None
        /\ (heatmap_haar_position # None /\ MovedFar(heatmap_haar_position, haar_face_position')) =>
               \A c \in HeatProbes : \A i \in 1..Len(heatmap'[c]) :
                   heatmap'[c][i].outs = 0 /\ heatmap'[c][i].ins = 0
        /\ (heatmap_haar_position # None /\ ~MovedFar(heatmap_haar_position, haar_face_position')) =>
               \A c \in HeatProbes :
                   /\ Len(heatmap'[c]) >= Len(heatmap[c])
                   /\ \A i \in 1..Len(heatmap[c]) :
                         /\ heatmap'[c][i].d2 = heatmap[c][i].d2
                         /\ heatmap'[c][i].m2 = heatmap[c][i].m2
                         /\ heatmap'[c][i].outs + heatmap'[c][i].ins
                              = heatmap[c][i].outs + heatmap[c][i].ins + 1 ]_vars

\* The anchor moved by exactly 100 px and the heat of the frame before is
\* still there; on another frame it moved further.
C24_Witness ==
    /\ heatmap_haar_before # None
    /\ Dist2(heatmap_haar_before, heatmap_haar_position) = 10000
    /\ \E c \in HeatProbes : \E i \in 1..Len(heatmap[c]) : heatmap[c][i].outs = 1

\* The key of an eye rectangle: each number to the nearest multiple of 5.
NearestFive(eye) == [i \in 1..4 |-> 5 * ((eye[i] + 2) \div 5)]

\* The number of rectangles of the history with the key k.
TimesSeen(H, k) == Cardinality({ o \in Occurrences(H) : NearestFive(H[o[1]][o[2]]) = k })

\* The keys seen at least min_eye_consistency_frames (3) times.
FrequentKeys(H) ==
    { k \in { NearestFive(H[o[1]][o[2]]) : o \in Occurrences(H) } : TimesSeen(H, k) >= 3 }

\* The eye is the most recent rectangle of the history with its key: it is the
\* first such in some frame, and no later frame holds one.
MostRecentOfKey(H, eye) ==
    \E f \in 1..Len(H) : \E j \in 1..Len(H[f]) :
        /\ H[f][j] = eye
        /\ \A i \in 1..(j - 1) : NearestFive(H[f][i]) # NearestFive(eye)
        /\ \A g \in (f + 1)..Len(H) : \A i \in 1..Len(H[g]) :
               NearestFive(H[g][i]) # NearestFive(eye)

\* C25 -- eye consistency: with an eye history of at least 3 frames,
\* find_most_consistent_eyes returns at most two rectangles, one for each of
\* the (up to) two most frequent 5-px-quantized keys seen at least 3 times,
\* each the most recent raw rectangle with that key; it returns nothing when
\* the history has fewer than 3 frames or no key reaches 3; the list of
\* consistent eyes never has more than 2 entries.
C25_ConsistentEyes ==
    LET H == eye_history
        C == consistent_eyes
        frequent == IF Len(H) < 3 THEN { } ELSE FrequentKeys(H)
    IN  /\ Len(C) <= 2
        /\ Len(C) = IF Cardinality(frequent) < 2 THEN Cardinality(frequent) ELSE 2
        /\ \A i \in 1..Len(C) :
              /\ NearestFive(C[i]) \in frequent
              /\ MostRecentOfKey(H, C[i])
              /\ \A k \in frequent :
                    TimesSeen(H, k) > TimesSeen(H, NearestFive(C[i]))
                        => \E j \in 1..Len(C) : NearestFive(C[j]) = k
        /\ Len(C) = 2 => /\ NearestFive(C[1]) # NearestFive(C[2])
                          /\ TimesSeen(H, NearestFive(C[1])) >= TimesSeen(H, NearestFive(C[2]))

\* Three keys were seen 3 times or more, two eyes are returned, and the first
\* is not the rectangle first seen with its key.
C25_Witness ==
    /\ Len(consistent_eyes) = 2
    /\ Cardinality(FrequentKeys(eye_history)) = 3
    /\ \E f \in 1..Len(eye_history) : \E j \in 1..Len(eye_history[f]) :
          /\ NearestFive(eye_history[f][j]) = NearestFive(consistent_eyes[1])
          /\ eye_history[f][j] # consistent_eyes[1]

\* The squared distance between the centres of two rectangles.
CentresApart2(a, b) ==
    ((a[1] + a[3] \div 2) - (b[1] + b[3] \div 2)) * ((a[1] + a[3] \div 2) - (b[1] + b[3] \div 2))
    + ((a[2] + a[4] \div 2) - (b[2] + b[4] \div 2)) * ((a[2] + a[4] \div 2) - (b[2] + b[4] \div 2))

\* C26 -- eye snap: for each consistent eye, update_eye_positions finds the
\* nearest eye detection of the frame by centre distance and replaces the eye
\* by exactly that detection (no smoothing); with no detections the
\* consistent eyes are kept as they are; the list returned has the length of
\* the list given.
C26_EyeSnap ==
    (eyes_tracked /\ consistent_eyes # << >>) =>
        LET C == consistent_eyes
            D == input.eyes
            U == last_consistent_eyes
        IN  /\ Len(U) = Len(C)
            /\ D = << >> => U = C
            /\ D # << >> =>
                  \A i \in 1..Len(C) : \E j \in 1..Len(D) :
                      /\ U[i] = D[j]
                      /\ \A n \in 1..Len(D) : CentresApart2(C[i], D[j]) <= CentresApart2(C[i], D[n])

\* Two consistent eyes, one of them moved to a detection with another key.
C26_Witness ==
    /\ eyes_tracked
    /\ Len(consistent_eyes) = 2
    /\ input.eyes # << >>
    /\ \E i \in 1..2 : NearestFive(last_consistent_eyes[i]) # NearestFive(consistent_eyes[i])

\* C27 -- no reset for eyes: the eye history is never cleared (the reset of
\* the face leaves it unchanged), and a frame with no face output modifies
\* neither the eye history nor last_consistent_eyes.
C27_EyesOutliveReset ==
    [][ frames' = frames + 1 =>
          /\ Len(eye_history') >= Len(eye_history)
          /\ (reset_fired' \/ consistent_face' = None) =>
                 /\ eye_history' = eye_history
                 /\ last_consistent_eyes' = last_consistent_eyes ]_vars

\* The face was reset with eyes in the history and consistent eyes stored.
C27_Witness ==
    /\ reset_fired
    /\ consistent_face = None
    /\ Len(eye_history) >= 3
    /\ last_consistent_eyes # None
    /\ last_consistent_eyes # << >>

\* C28 -- history bounds: the face history never holds more than 150
\* candidate sets and the eye history never more than 50; every frame appends
\* exactly one candidate set to the face history, after the reset check,
\* and the oldest leaves when it is full; at the end of a frame the face
\* history is never empty.
C28_HistoryBounds ==
    [][ frames' = frames + 1 =>
          /\ Len(object_history') <= 150
          /\ Len(eye_history') <= 50
          /\ object_history' # << >>
          /\ LET kept == IF reset_fired' THEN << >> ELSE object_history
             IN  object_history' =
                     IF Len(kept) = 150 THEN Append(Tail(kept), current_objects')
                     ELSE Append(kept, current_objects') ]_vars

\* Both histories are full and frames have left them.
C28_Witness ==
    /\ frames > 150
    /\ Len(object_history) = 150
    /\ Len(eye_history) = 50

\* a <= b for two numbers given by their digits.
DecLeq(a, b) ==
    \A x \in {a}, y \in {b}, n \in {Max(Len(a), Len(b))} :
        \A i \in 1..n :
            (i <= Len(x) /\ x[i] > (IF i <= Len(y) THEN y[i] ELSE 0))
                => \E j \in (i + 1)..n : j <= Len(y) /\ (IF j <= Len(x) THEN x[j] ELSE 0) < y[j]

\* After n updates toward the rectangle R, each average is no further from R
\* than one thousandth of the distance of the first observation from R:
\* 1000 * |num - R * 10^places| <= |first - R| * 10^places, for each number
\* with num on the side of R where the first observation was.
WithinThousandthAfter(n) ==
    (haar_observations = n + 1) =>
        \A i \in 1..4 :
            LET avg == average_haar[i]
                R == Carry(<<input.haar[i]>>, 0)
                k == avg.places
            IN  IF haar_first[i] <= input.haar[i]
                THEN DecLeq(DecLinear(0, << >>, 1000, R, k),
                            DecLinear(1000, avg.num, 1, Carry(<<input.haar[i] - haar_first[i]>>, 0), k))
                ELSE DecLeq(DecLinear(1000, avg.num, 0, << >>, 0),
                            DecLinear(0, << >>, 1, Carry(<<1000 * input.haar[i] + haar_first[i] - input.haar[i]>>, 0), k))

\* The first observation sets the averages to itself; each later one, of R,
\* leaves 10 * avg' = 3 * R + 7 * avg, on the same side of R and no further
\* from it.
EmaLaw ==
        haar_observations' = haar_observations + 1 =>
          \A i \in 1..4 :
              LET R == Carry(<<haar_last_position'[i]>>, 0)
                  new == average_haar'[i]
              IN  IF average_haar = None
                  THEN new.places = 0 /\ new.num = R
                  ELSE LET old == average_haar[i]
                       IN  /\ new.places = old.places + 1
                           /\ DecLinear(10, new.num, 0, << >>, 0)
                                = DecLinear(70, old.num, 3, R, new.places)
                           /\ IF haar_first[i] <= input.haar[i]
                              THEN /\ DecLeq(DecLinear(10, old.num, 0, << >>, 0), new.num)
                                   /\ DecLeq(new.num, DecLinear(0, << >>, 1, R, new.places))
                              ELSE /\ DecLeq(new.num, DecLinear(10, old.num, 0, << >>, 0))
                                   /\ DecLeq(DecLinear(0, << >>, 1, R, new.places), new.num)

\* C29 as stated -- EMA convergence: the first anchor observation initialises
\* the averages directly; thereafter avg = 0.3 * new + 0.7 * avg, so under a
\* constant observed rectangle R the error |avg - R| of each coordinate is
\* non-increasing (multiplied by 0.7 per observation), and the smoothed anchor
\* is within 0.1% of its initial error after 18 observations.
C29_Within18 == [][EmaLaw /\ WithinThousandthAfter(18)']_vars

\* C29 -- EMA convergence, amended: the same, with the smoothed anchor within
\* 0.1% of its initial error after 20 observations.
C29_Within20 == [][EmaLaw /\ WithinThousandthAfter(20)']_vars

\* Twenty observations of R after a first observation elsewhere.
C29_Witness ==
    /\ haar_observations = 21
    /\ haar_first # input.haar
    /\ \E i \in 1..4 : haar_first[i] < input.haar[i]
    /\ \E i \in 1..4 : haar_first[i] > input.haar[i]

\* Twice the distance of the exposed coordinate p from the average a, in
\* units of 1/a[2].
TwiceApart(p, a) == IF 2 * a[1] >= 2 * p * a[2] THEN 2 * a[1] - 2 * p * a[2] ELSE 2 * p * a[2] - 2 * a[1]

\* C30 as stated: the smoothed anchor exposed to the selector, heatmap and
\* scheduler is each of avg_x, avg_y, avg_w, avg_h rounded to the nearest
\* integer: no further than one half from its average.
C30_ExposedNearest ==
    average_haar # None =>
        /\ haar_face_position # None
        /\ \A i \in 1..4 : TwiceApart(haar_face_position[i], average_haar[i]) <= average_haar[i][2]

\* C30 -- amended: the smoothed anchor exposed to the selector, heatmap and
\* scheduler is each of avg_x, avg_y, avg_w, avg_h truncated toward zero:
\* the largest integer not above the average, the averages never being negative.
C30_ExposedTruncated ==
    average_haar # None =>
        /\ haar_face_position # None
        /\ \A i \in 1..4 :
              /\ average_haar[i][1] >= 0
              /\ haar_face_position[i] * average_haar[i][2] <= average_haar[i][1]
              /\ average_haar[i][1] < (haar_face_position[i] + 1) * average_haar[i][2]

\* An average whose fraction is above one half has been exposed, and the
\* selector has searched around the exposed anchor.
C30_Witness ==
    /\ average_haar # None
    /\ \E i \in 1..4 : 2 * (average_haar[i][1] % average_haar[i][2]) > average_haar[i][2]
    /\ frames >= 2
    /\ heatmap_haar_position = haar_face_position

\* C31: in every reachable state, if the last-known tracked face is present
\* then the face history holds at least min_consistency_frames (10) entries;
\* so a frame that took the re-acquisition path ends with a history of at
\* least 10 entries.
C31_LastKnownNeedsHistory ==
    /\ last_consistent_face # None => Len(object_history) >= min_consistency_frames
    /\ face_source = "reconnect" => Len(object_history) >= min_consistency_frames

\* A frame took the re-acquisition path, after an earlier frame had set the
\* last-known face.
C31_Witness ==
    /\ face_source = "reconnect"
    /\ last_consistent_face # None
    /\ consistent_face # last_consistent_face

\* C32: after the reset fires in frame t, no face rectangle is output, voted
\* or reconnected, in frames t through t+9, whatever the candidates of those
\* frames; a face can be output in frame t+10 (see the witness).
C32_QuietAfterReset ==
    (last_reset_frame > 0 /\ frames - last_reset_frame < min_consistency_frames) =>
        /\ consistent_face = None
        /\ voted = None
        /\ face_source = "none"
        /\ last_consistent_face = None

\* Frame t+10 outputs a face: the frames t+1 to t+10 all showed it.
C32_Witness ==
    /\ last_reset_frame > 0
    /\ frames = last_reset_frame + min_consistency_frames
    /\ consistent_face # None
    /\ face_source = "vote"
    /\ object_history[1] = << >>

\* C33: once an anchor has been observed the smoothed anchor is present in
\* every later frame, whatever detections fail and whatever is reset; the
\* candidate set is the default window only in frames before the first
\* observation, and the heatmap is absent exactly after those frames.
C33_AnchorStays ==
    /\ haar_face_position = None <=> haar_observations = 0
    /\ frames >= 1 =>
          /\ heatmap = None <=> haar_observations = 0
          /\ haar_observations = 0 => current_objects = << <<100, 50, 200, 200>> >>
          /\ haar_observations > 0 =>
                \A i \in 1..Len(current_objects) :
                    \E j \in 1..Len(input.blobs) : current_objects[i] = input.blobs[j]

\* The anchor and the heatmap are there after a reset and after a detection
\* that found nothing.
C33_Witness ==
    /\ last_reset_frame > 0
    /\ frames > last_reset_frame
    /\ haar_invoked
    /\ haar_observations = MaxHaarObservations
    /\ haar_last_position = haar_raw_before
    /\ haar_face_position # None
    /\ heatmap # None
    /\ current_objects # << >>

\* C34: while no anchor has ever been observed the reset counter is 0 after
\* every frame and the reset never fires; the counter is positive only after
\* the first anchor observation.
C34_NoResetWithoutAnchor ==
    /\ haar_observations = 0 =>
          /\ consistency_reset_counter = 0
          /\ ~reset_fired
          /\ last_reset_frame = 0
          /\ \A i \in 1..Len(candidate_log) : candidate_log[i] = 1
    /\ consistency_reset_counter > 0 => haar_observations > 0

\* Frames without an anchor, the detector invoked in vain, nothing to see in
\* the last one.
C34_Witness ==
    /\ haar_observations = 0
    /\ frames >= 2
    /\ haar_invoked
    /\ input.blobs = << >>
    /\ consistency_reset_counter = 0

\* The term t is fresh heat between 0.36 and 0.4: 0.4 * (1 - 0.1 * r) with
\* r = sqrt(d2 / m2) between 0 and 1, not decayed yet; for the object o under
\* the anchor haar, d2 is the squared distance of the centres and m2 the
\* squared half-diagonal of the anchor with 5 px added to each half-side.
FreshHeat(t, o, haar) ==
    /\ t.outs = 0 /\ t.ins = 0
    /\ t.m2 = (haar[3] \div 2 + 5) * (haar[3] \div 2 + 5) + (haar[4] \div 2 + 5) * (haar[4] \div 2 + 5)
    /\ t.d2 = (CenterX(o) - CenterX(haar)) * (CenterX(o) - CenterX(haar))
               + (CenterY(o) - CenterY(haar)) * (CenterY(o) - CenterY(haar))
    /\ 0 <= t.d2 /\ t.d2 <= t.m2 /\ t.m2 > 0

\* C35: whenever an anchor is present and the candidate set of the frame is
\* not empty, the centre of the candidate is inside the padded anchor mask
\* and heat between 0.36 and 0.4 is added to what each cell of its bounding
\* box held; every heatmap cell is a sum of non-negative terms.
C35_CandidateHeats ==
    [][ frames' = frames + 1 =>
        /\ (haar_face_position' # None /\ current_objects' # << >>) =>
              \A k \in 1..Len(current_objects') :
                  LET o == current_objects'[k]
                      kept == /\ heatmap # None
                              /\ ~MovedFar(heatmap_haar_position, haar_face_position')
                  IN  /\ InPaddedAnchor(<<CenterY(o), CenterX(o)>>, haar_face_position')
                      /\ \A c \in HeatProbes :
                            ( /\ o[2] <= c[1] /\ c[1] < o[2] + o[4]
                              /\ o[1] <= c[2] /\ c[2] < o[1] + o[3] ) =>
                                /\ Len(heatmap'[c]) = (IF kept THEN Len(heatmap[c]) ELSE 0) + 1
                                /\ FreshHeat(heatmap'[c][Len(heatmap'[c])], o, haar_face_position')
        /\ heatmap' # None =>
              \A c \in HeatProbes : \A i \in 1..Len(heatmap'[c]) :
                  /\ heatmap'[c][i].outs >= 0 /\ heatmap'[c][i].ins >= 0
                  /\ heatmap'[c][i].m2 > 0
                  /\ 0 <= heatmap'[c][i].d2 /\ heatmap'[c][i].d2 <= heatmap'[c][i].m2 ]_vars

\* A cell in the box of the frame's candidate holds the heat of two frames.
C35_Witness ==
    /\ haar_face_position # None
    /\ current_objects # << >>
    /\ heatmap # None
    /\ \E c \in HeatProbes :
          /\ InSlice(c, current_objects[1])
          /\ Len(heatmap[c]) >= 2
          /\ heatmap[c][Len(heatmap[c])].ins = 0
          /\ heatmap[c][1].ins + heatmap[c][1].outs >= 1

\* One pass of the scheduler: the interval selected is at most 1.0 s; the
\* detector is invoked when the frame comes at least that interval (so
\* whenever it comes 1.0 s or more) after the last invocation, and only then;
\* an invocation restarts the time since the last one, with or without a
\* rectangle found.
SchedulerPass ==
    LET now == IF elapsed + input'.dt > 10 THEN 10 ELSE elapsed + input'.dt
    IN  /\ adaptive_interval' \in 1..10
        /\ haar_invoked' <=> now >= adaptive_interval'
        /\ now >= 10 => haar_invoked'
        /\ elapsed' = IF haar_invoked' THEN 0 ELSE now
        /\ frames = 0 => haar_invoked'

\* C36 -- scheduler liveness: the detector is invoked on the first frame, the
\* interval never exceeds 1.0 s, every invocation advances the
\* last-invocation time; hence, frames arriving for ever, the loop invokes
\* the detector again and again.
C36_DetectorRecurs ==
    /\ [][status' = "running" => SchedulerPass]_vars
    /\ []<>(status = "running" /\ haar_invoked)

\* C37 -- integrator idle: on a frame without a voted face (a reconnection
\* frame included) and on a frame without candidates, average_face_size and
\* the two stored previous centres are left as they were and nothing is
\* interpolated; on a reconnection frame the face is the candidate nearest to
\* the last known face, as detected.
C37_IntegratorIdle ==
    [][ /\ (voted' = None \/ current_objects' = << >>) =>
            /\ average_face_size' = average_face_size
            /\ previous_haar_center' = previous_haar_center
            /\ previous_face_center' = previous_face_center
            /\ ~integration'.ran
            /\ status' # "raised"
        /\ face_source' = "reconnect" =>
            /\ voted' = None
            /\ \E i \in 1..Len(current_objects') :
                  /\ consistent_face' = current_objects'[i]
                  /\ \A j \in 1..Len(current_objects') :
                        /\ Dist2(last_consistent_face, current_objects'[i])
                              <= Dist2(last_consistent_face, current_objects'[j])
                        /\ j < i => Dist2(last_consistent_face, current_objects'[i])
                                      < Dist2(last_consistent_face, current_objects'[j]) ]_vars

C37_Witness ==
    /\ status = "running"
    /\ face_source = "reconnect"
    /\ voted = None
    /\ Len(current_objects) = 1
    /\ consistent_face = current_objects[1]
    /\ consistent_face # last_consistent_face
    /\ average_face_size \notin { None, RInt(Area(last_consistent_face)) }
    /\ previous_haar_center # None
    /\ previous_face_center # None
    /\ \E i \in 1..Len(object_history) : object_history[i] = << >>

====
